---- MODULE Spec2Model ----
(***************************************************************************)
(* Text-to-CAD front end: the STL decoder of ThreeJSManager, the script    *)
(* runner of ModelBuilder, the usage/session service AuthService and the   *)
(* SidebarComponent / HeaderComponent handlers that coordinate them.       *)
(*                                                                         *)
(* Text is a sequence of character codes, a buffer a sequence of bytes.    *)
(* A 32-bit float is identified with its little-endian bit pattern, an     *)
(* ASCII number with the integer parseFloat reads from its digits.         *)
(***************************************************************************)
EXTENDS Integers, Sequences, FiniteSets, TLC

NULL == "null"
NaN == 2143289344

(***************************************************************************)
(* Bounds of the model.                                                    *)
(***************************************************************************)
MaxTriangles == 2
MaxTasks == 2

(***************************************************************************)
(* Program constants.                                                      *)
(***************************************************************************)
maxModels == 10
HEADER_BYTES == 80
TRIANGLE_LIMIT == 10000000

(***************************************************************************)
(* String helpers (String.prototype.trim / startsWith / split, parseFloat, *)
(* TextDecoder / TextEncoder).                                             *)
(***************************************************************************)
SetMin(S) == CHOOSE x \in S : \A y \in S : x <= y
SetMax(S) == 0 - SetMin({0 - x : x \in S})

isWhitespace(c) == c \in {9, 10, 11, 12, 13, 32}

\* variant: the text is taken as it is
noTrim(s) == s

\* String.prototype.trim
trim(s) ==
    LET keep == {i \in 1..Len(s) : ~isWhitespace(s[i])}
    IN  IF keep = {} THEN <<>> ELSE SubSeq(s, SetMin(keep), SetMax(keep))

startsWith(s, p) == Len(s) >= Len(p) /\ SubSeq(s, 1, Len(p)) = p

\* s.split(sep) for a one-character separator: always at least one piece
split(s, sep) ==
    LET cuts == {i \in 1..Len(s) : s[i] = sep}
        RECURSIVE pieces(_, _)
        pieces(from, acc) ==
            LET later == {i \in cuts : i >= from}
            IN  IF later = {} THEN Append(acc, SubSeq(s, from, Len(s)))
                ELSE pieces(SetMin(later) + 1,
                            Append(acc, SubSeq(s, from, SetMin(later) - 1)))
    IN  pieces(1, <<>>)

isDigit(c) == c \in 48..57

\* parseFloat on integer literals: optional sign, then the longest run of
\* digits; NaN when there is no digit (also for undefined, i.e. a missing part)
parseFloat(tok) ==
    LET t == trim(tok)
        neg == Len(t) > 0 /\ t[1] = 45
        body == IF Len(t) > 0 /\ t[1] \in {43, 45} THEN Tail(t) ELSE t
        stop == {i \in 1..Len(body) : ~isDigit(body[i])}
        n == IF stop = {} THEN Len(body) ELSE SetMin(stop) - 1
        RECURSIVE val(_)
        val(k) == IF k = 0 THEN 0 ELSE 10 * val(k - 1) + (body[k] - 48)
    IN  IF n = 0 THEN NaN ELSE IF neg THEN 0 - val(n) ELSE val(n)

\* new TextDecoder().decode(bytes): ASCII bytes are kept, every other byte
\* is shown as U+FFFD (the bytes of the model never form a valid multi-byte
\* sequence)
TextDecode(bytes) ==
    [i \in 1..Len(bytes) |-> IF bytes[i] < 128 THEN bytes[i] ELSE 65533]

\* new TextEncoder().encode(text), for code points below 2048: one byte for
\* an ASCII character, two bytes for any other
TextEncode(text) ==
    LET wide == {i \in 1..Len(text) : text[i] >= 128}
        start(i) == i + Cardinality({j \in wide : j < i})
        total == Len(text) + Cardinality(wide)
        owner(k) == SetMax({i \in 1..Len(text) : start(i) <= k})
    IN  [k \in 1..total |->
            LET i == owner(k)
            IN  IF text[i] < 128 THEN text[i]
                ELSE IF k = start(i) THEN 192 + (text[i] \div 64)
                ELSE 128 + (text[i] % 64)]

\* ArrayBuffer.prototype.slice(0, end)
slice(bytes, end) == SubSeq(bytes, 1, IF Len(bytes) < end THEN Len(bytes) ELSE end)

\* DataView.getUint32(offset, true): little endian
getUint32(bytes, offset) ==
    bytes[offset + 1] + 256 * bytes[offset + 2]
        + 65536 * bytes[offset + 3] + 16777216 * bytes[offset + 4]

\* DataView.getFloat32(offset, true): the float with this bit pattern
getFloat32(bytes, offset) == getUint32(bytes, offset)

(***************************************************************************)
(* Character data used by the decoder and by the sample files.             *)
(***************************************************************************)
sSolid == <<115, 111, 108, 105, 100>>
sFacetNormal == <<102, 97, 99, 101, 116, 32, 110, 111, 114, 109, 97, 108>>
sVertex == <<118, 101, 114, 116, 101, 120>>
sEndfacet == <<101, 110, 100, 102, 97, 99, 101, 116>>
sOuterLoop == <<111, 117, 116, 101, 114, 32, 108, 111, 111, 112>>
sEndloop == <<101, 110, 100, 108, 111, 111, 112>>
sEndsolid == <<101, 110, 100, 115, 111, 108, 105, 100>>
sName == <<32, 109>>
sBinHdr == <<98, 105, 110, 97, 114, 121, 32, 115, 116, 108>>

(***************************************************************************)
(* STL decoder results: a geometry (position and normal buffers, with the  *)
(* decoder that produced it) or the error that was thrown.                 *)
(***************************************************************************)
Geometry(fmt, vertices, normals) ==
    [ok |-> TRUE, format |-> fmt, error |-> "", position |-> vertices, normal |-> normals]

\* no call was made yet
NoResult == [ok |-> FALSE, format |-> "none", error |-> "", position |-> <<>>, normal |-> <<>>]

Thrown(fmt, msg) ==
    [ok |-> FALSE, format |-> fmt, error |-> msg, position |-> <<>>, normal |-> <<>>]

(***************************************************************************)
(* ThreeJSManager.parseBinarySTL                                           *)
(***************************************************************************)
\* variant: records packed without the 2 attribute bytes
triangleOffsetPacked(i) == 84 + i * 48

\* offset of triangle i: 84 + i * 50
triangleOffset(i) == 84 + i * 50

\* offset of vertex j of the triangle at offset: offset + 12 + j * 12
vertexOffset(offset, j) == offset + 12 + j * 12

\* the loop over the declared triangles, with both bounds checks
readTriangles(bytes, triangleCount) ==
    LET byteLength == Len(bytes)
        RECURSIVE tri(_, _, _)
        RECURSIVE vert(_, _, _, _)
        vert(i, j, vertices, normals) ==
            LET offset == triangleOffset(i)
                vo == vertexOffset(offset, j)
            IN  IF j = 3 THEN tri(i + 1, vertices, normals)
                ELSE IF vo + 12 > byteLength
                     THEN [vertices |-> vertices, normals |-> normals]
                ELSE vert(i, j + 1,
                          vertices \o <<getFloat32(bytes, vo),
                                        getFloat32(bytes, vo + 4),
                                        getFloat32(bytes, vo + 8)>>,
                          normals \o <<getFloat32(bytes, offset),
                                       getFloat32(bytes, offset + 4),
                                       getFloat32(bytes, offset + 8)>>)
        tri(i, vertices, normals) ==
            IF i >= triangleCount THEN [vertices |-> vertices, normals |-> normals]
            ELSE IF triangleOffset(i) + 50 > byteLength
                 THEN [vertices |-> vertices, normals |-> normals]
            ELSE vert(i, 0, vertices, normals)
    IN  tri(0, <<>>, <<>>)

\* 84 + triangleCount * 50.  A JavaScript number does not overflow here; the
\* count is capped at 20,000,000, which keeps the product within 32 bits and
\* above the length of every buffer
expectedSizeFor(triangleCount) ==
    84 + ((IF triangleCount > 20000000 THEN 20000000 ELSE triangleCount) * 50)

\* variant: an empty vertex list passes
noTrianglesNever(vertices) == FALSE

\* vertices.length === 0
noTriangles(vertices) == Len(vertices) = 0

parseBinarySTL(buffer) ==
    IF buffer.type \notin {"string", "ArrayBuffer"}
    THEN Thrown("binary", "Unsupported STL data format")
    ELSE
    LET bytes == IF buffer.type = "string" THEN TextEncode(buffer.data) ELSE buffer.data
    IN  IF Len(bytes) < 84 THEN Thrown("binary", "Binary STL file too small")
        ELSE
        LET triangleCount == getUint32(bytes, HEADER_BYTES)
            expectedSize == expectedSizeFor(triangleCount)
        IN  IF Len(bytes) < expectedSize
            THEN Thrown("binary", "Binary STL file truncated or invalid triangle count")
            ELSE IF triangleCount > TRIANGLE_LIMIT
            THEN Thrown("binary", "Unrealistic triangle count")
            ELSE
            LET r == readTriangles(bytes, triangleCount)
            IN  IF noTriangles(r.vertices)
                THEN Thrown("binary", "No valid triangles found in binary STL data")
                ELSE Geometry("binary", r.vertices, r.normals)

(***************************************************************************)
(* ThreeJSManager.parseASCIISTL                                            *)
(***************************************************************************)
\* parts[k] of line.split(' '), undefined (read as NaN) beyond the end
part(parts, k) == IF k + 1 <= Len(parts) THEN parseFloat(parts[k + 1]) ELSE NaN

\* currentFacet = null
noFacet == [open |-> FALSE, normal |-> <<>>, vertices |-> <<>>]

\* variant: a facet with more than 3 vertices passes, its first 3 are taken
invalidFacetBelow(currentFacet) == ~currentFacet.open \/ Len(currentFacet.vertices) < 3

\* !currentFacet || currentFacet.vertices.length !== 3
invalidFacet(currentFacet) == ~currentFacet.open \/ Len(currentFacet.vertices) # 3

parseASCIISTL(text) ==
    LET lines == split(text, 10)
        RECURSIVE scan(_, _, _, _)
        scan(k, currentFacet, vertices, normals) ==
            IF k > Len(lines)
            THEN IF Len(vertices) = 0
                 THEN Thrown("ascii", "No valid triangles found in ASCII STL data")
                 ELSE Geometry("ascii", vertices, normals)
            ELSE
            LET line == trim(lines[k])
                parts == split(line, 32)
            IN  IF startsWith(line, sFacetNormal)
                THEN IF Len(parts) < 5
                     THEN Thrown("ascii", "Invalid facet normal line")
                     ELSE scan(k + 1,
                               [open |-> TRUE,
                                normal |-> <<part(parts, 2), part(parts, 3), part(parts, 4)>>,
                                vertices |-> <<>>],
                               vertices, normals)
                ELSE IF startsWith(line, sVertex)
                THEN IF ~currentFacet.open
                     THEN Thrown("ascii", "Vertex found outside of facet")
                     ELSE IF Len(parts) < 4
                     THEN Thrown("ascii", "Invalid vertex line")
                     ELSE scan(k + 1,
                               [currentFacet EXCEPT !.vertices =
                                   Append(@, <<part(parts, 1), part(parts, 2), part(parts, 3)>>)],
                               vertices, normals)
                ELSE IF startsWith(line, sEndfacet)
                THEN IF invalidFacet(currentFacet)
                     THEN Thrown("ascii", "Invalid facet: expected 3 vertices")
                     ELSE scan(k + 1, noFacet,
                               vertices \o currentFacet.vertices[1]
                                        \o currentFacet.vertices[2]
                                        \o currentFacet.vertices[3],
                               normals \o currentFacet.normal
                                       \o currentFacet.normal
                                       \o currentFacet.normal)
                ELSE scan(k + 1, currentFacet, vertices, normals)
    IN  scan(1, noFacet, <<>>, <<>>)

(***************************************************************************)
(* ThreeJSManager.parseSTL: format detection, then one of the two decoders *)
(***************************************************************************)
isAscii(stlData) ==
    IF stlData.type = "string"
    THEN startsWith(trim(stlData.data), sSolid)
    ELSE IF stlData.type = "ArrayBuffer"
    THEN LET headerText == TextDecode(slice(stlData.data, 80))
             first == startsWith(trim(headerText), sSolid)
         IN  IF ~first /\ Len(stlData.data) >= 84
             THEN LET triangleCount == getUint32(stlData.data, 80)
                      expectedBinarySize == expectedSizeFor(triangleCount)
                  IN  IF Len(stlData.data) > expectedBinarySize * 2
                      THEN startsWith(trim(TextDecode(stlData.data)), sSolid)
                      ELSE first
             ELSE first
    ELSE FALSE

decodeSTL(stlData) ==
    IF isAscii(stlData)
    THEN parseASCIISTL(IF stlData.type = "string" THEN stlData.data
                       ELSE TextDecode(stlData.data))
    ELSE parseBinarySTL(stlData)

(***************************************************************************)
(* Sample STL files: the inputs of the decoder.  Each input records, next  *)
(* to its type and data, how it was written (enc, tris) so that properties *)
(* can speak about well-formed files.                                      *)
(***************************************************************************)
u32le(n) == <<n % 256, (n \div 256) % 256, (n \div 65536) % 256, (n \div 16777216) % 256>>

padTo(prefix, n) == prefix \o [i \in 1..(n - Len(prefix)) |-> 0]

BinHeaders == {<<>>, sBinHdr, sSolid \o sName, <<32, 10>> \o sSolid}

\* the 50 bytes of triangle i: 12 floats, all different, and 2 attribute bytes
triangleRecord(i, seed) ==
    LET RECURSIVE floats(_)
        floats(k) == IF k = 12 THEN <<>> ELSE u32le(seed + 12 * i + k) \o floats(k + 1)
    IN  floats(0) \o <<127, 126>>

RECURSIVE triangleRecords(_, _)
triangleRecords(n, seed) ==
    IF n = 0 THEN <<>> ELSE triangleRecords(n - 1, seed) \o triangleRecord(n - 1, seed)

\* a binary file declaring `declared` triangles, holding `present` complete
\* records and then `extra` bytes of the next one
binarySTL(hdr, declared, present, extra, seed) ==
    padTo(hdr, 80) \o u32le(declared) \o triangleRecords(present, seed)
        \o SubSeq(triangleRecord(present, seed), 1, extra)

digit(d) == <<48 + d>>

asciiFacet(i) ==
    sFacetNormal \o <<32>> \o digit(0) \o <<32>> \o digit(0) \o <<32>> \o digit(1) \o <<10>>
    \o sOuterLoop \o <<10>>
    \o sVertex \o <<32>> \o digit(i) \o <<32>> \o digit(0) \o <<32>> \o digit(0) \o <<10>>
    \o sVertex \o <<32>> \o digit(i) \o <<32>> \o digit(1) \o <<32>> \o digit(0) \o <<13, 10>>
    \o <<32, 32>> \o sVertex \o <<32>> \o digit(i) \o <<32>> \o digit(0) \o <<32>> \o digit(2) \o <<10>>
    \o sEndloop \o <<10>>
    \o sEndfacet \o <<10>>

RECURSIVE asciiFacets(_)
asciiFacets(n) == IF n = 0 THEN <<>> ELSE asciiFacets(n - 1) \o asciiFacet(n - 1)

asciiSTL(lead, n) ==
    lead \o sSolid \o sName \o <<10>> \o asciiFacets(n) \o sEndsolid \o sName \o <<10>>

BinaryInputs ==
    { [type |-> ty, data |-> binarySTL(h, d, p, e, s), enc |-> "binary",
       tris |-> IF d = p /\ e = 0 THEN p ELSE 0, wellFormed |-> (d = p /\ e = 0 /\ p >= 1)]
      : ty \in {"ArrayBuffer"}, h \in BinHeaders, d \in 0..(MaxTriangles + 1),
        p \in 0..MaxTriangles, e \in {0, 30}, s \in {1, 100} }

\* binary data held in a string, and data of a type the decoder does not know
OtherInputs ==
    { [type |-> "string", data |-> binarySTL(h, p, p, 0, 1), enc |-> "binary",
       tris |-> p, wellFormed |-> FALSE] : h \in {sBinHdr, <<233>>}, p \in 0..MaxTriangles }
    \cup { [type |-> "Blob", data |-> binarySTL(<<>>, 1, 1, 0, 1), enc |-> "binary",
            tris |-> 1, wellFormed |-> FALSE] }
    \cup { [type |-> "ArrayBuffer", data |-> SubSeq(binarySTL(h, 1, 1, 0, 1), 1, n),
            enc |-> "binary", tris |-> 0, wellFormed |-> FALSE]
           : h \in {<<>>, sSolid \o sName}, n \in {0, 40, 83} }

\* binary files declaring more triangles than the decoder's limit
HugeInputs ==
    { [type |-> "ArrayBuffer", data |-> binarySTL(sBinHdr, d, p, 0, 1), enc |-> "binary",
       tris |-> 0, wellFormed |-> FALSE]
      : d \in {TRIANGLE_LIMIT + 1, 2 * TRIANGLE_LIMIT + 1}, p \in 0..MaxTriangles }

AsciiInputs ==
    { [type |-> ty, data |-> asciiSTL(lead, n), enc |-> "ascii", tris |-> n,
       wellFormed |-> (n >= 1)]
      : ty \in {"string", "ArrayBuffer"}, lead \in {<<>>, <<32, 10>>}, n \in 0..MaxTriangles }

STLInputs == BinaryInputs \cup OtherInputs \cup HugeInputs \cup AsciiInputs

(***************************************************************************)
(* The files the backend serves for a download, decoded once.              *)
(***************************************************************************)
\* a complete one-triangle binary STL
goodDownload ==
    [type |-> "ArrayBuffer", data |-> binarySTL(sBinHdr, 1, 1, 0, 1), enc |-> "binary",
     tris |-> 1, wellFormed |-> TRUE]

\* a binary STL that declares two triangles and holds one
truncatedDownload ==
    [type |-> "ArrayBuffer", data |-> binarySTL(sBinHdr, 2, 1, 0, 1), enc |-> "binary",
     tris |-> 0, wellFormed |-> FALSE]

Downloads == {goodDownload, truncatedDownload}

\* the decoder's result for each sample file and download, computed once
decodedFiles == {<<d, decodeSTL(d)>> : d \in STLInputs \cup Downloads}

\* geometry = this.parseSTL(stlData)
parseSTL(stlData) ==
    IF \E p \in decodedFiles : p[1] = stlData
    THEN (CHOOSE p \in decodedFiles : p[1] = stlData)[2]
    ELSE decodeSTL(stlData)

(***************************************************************************)
(* Editor code.  A script is its text together with what running it under  *)
(* the bindings cad, THREE and Math does: "throws" (syntax or run-time     *)
(* error), "noModel" (runs, defines no model), "falsy" (declares a model   *)
(* whose build() yields nothing), "object" (declares a model whose build() *)
(* yields a 3D object) or "objectGlobal" (the same, but `model` is         *)
(* assigned without a declaration: the function made by `new Function` is  *)
(* not strict, so the assignment creates the global window.model).         *)
(***************************************************************************)
sCad == <<99, 97, 100, 46>>
sSquare == <<115, 113, 117, 97, 114, 101>>
sCircle == <<99, 105, 114, 99, 108, 101>>
sPolygon == <<112, 111, 108, 121, 103, 111, 110>>
sOffset == <<46, 111, 102, 102, 115, 101, 116>>
sExtrude == <<46, 101, 120, 116, 114, 117, 100, 101>>
sRevolve == <<46, 114, 101, 118, 111, 108, 118, 101>>
sExtrudeTo == <<101, 120, 116, 114, 117, 100, 101, 95, 116, 111>>
sFromBadcad == <<102, 114, 111, 109, 32, 98, 97, 100, 99, 97, 100>>
sImport == <<105, 109, 112, 111, 114, 116>>
sBadcad == <<98, 97, 100, 99, 97, 100>>

\* "const model = cad.cube(3)", standing for projects.basicShapes
tBasicShapes == <<99, 111, 110, 115, 116, 32, 109, 111, 100, 101, 108, 32, 61, 32, 99, 97, 100, 46, 99, 117, 98, 101, 40, 51, 41>>
\* "model = cad.cube(3)": assigns `model` without declaring it
tGlobal == <<109, 111, 100, 101, 108, 32, 61, 32, 99, 97, 100, 46, 99, 117, 98, 101, 40, 51, 41>>
\* "cad.cube(3)"
tNoModel == <<99, 97, 100, 46, 99, 117, 98, 101, 40, 51, 41>>
\* "model = cad.cube("
tSyntax == <<109, 111, 100, 101, 108, 32, 61, 32, 99, 97, 100, 46, 99, 117, 98, 101, 40>>
\* "const model = {build(){}}; // cad."
tFalsy == <<99, 111, 110, 115, 116, 32, 109, 111, 100, 101, 108, 32, 61, 32, 123, 98, 117, 105, 108, 100, 40, 41, 123, 125, 125, 59, 32, 47, 47, 32, 99, 97, 100, 46>>
\* "model = square (2).extrude(1)"
tBadCAD == <<109, 111, 100, 101, 108, 32, 61, 32, 115, 113, 117, 97, 114, 101, 32, 40, 50, 41, 46, 101, 120, 116, 114, 117, 100, 101, 40, 49, 41>>
\* "model = cad.cube(3).extrude(1)"
tBoth == <<109, 111, 100, 101, 108, 32, 61, 32, 99, 97, 100, 46, 99, 117, 98, 101, 40, 51, 41, 46, 101, 120, 116, 114, 117, 100, 101, 40, 49, 41>>
\* "hello"
tOther == <<104, 101, 108, 108, 111>>
\* " \n"
tBlank == <<32, 10>>

Script(text, run) == [text |-> text, run |-> run]

CodeSamples ==
    { Script(<<>>, "noModel"), Script(tBlank, "noModel"),
      Script(tBasicShapes, "object"), Script(tGlobal, "objectGlobal"),
      Script(tNoModel, "noModel"),
      Script(tSyntax, "throws"), Script(tFalsy, "falsy"),
      Script(tBadCAD, "throws"), Script(tBoth, "throws"),
      Script(tOther, "throws") }

\* RegExp.prototype.test for a literal pattern
contains(s, p) ==
    \E i \in 1..(Len(s) - Len(p) + 1) : SubSeq(s, i, i + Len(p) - 1) = p

\* /name\s*\(/.test(s)
matchesCall(s, name) ==
    \E i \in 1..(Len(s) - Len(name) + 1) :
        /\ SubSeq(s, i, i + Len(name) - 1) = name
        /\ \E k \in (i + Len(name))..Len(s) :
              /\ s[k] = 40
              /\ \A m \in (i + Len(name))..(k - 1) : isWhitespace(s[m])

\* /import.*badcad/.test(s): the dot matches no line terminator
matchesImportBadcad(s) ==
    \E i \in 1..(Len(s) - Len(sImport) + 1) :
        /\ SubSeq(s, i, i + Len(sImport) - 1) = sImport
        /\ \E j \in (i + Len(sImport))..(Len(s) - Len(sBadcad) + 1) :
              /\ SubSeq(s, j, j + Len(sBadcad) - 1) = sBadcad
              /\ \A m \in (i + Len(sImport))..(j - 1) : s[m] \notin {10, 13}

(***************************************************************************)
(* 3D objects.  A model is the object of a script (src "cad") or the mesh  *)
(* of a decoded STL (src "stl", with its geometry and the backend model it *)
(* was downloaded for).                                                    *)
(***************************************************************************)
NoGeometry == [position |-> <<>>, normal |-> <<>>]

\* modelBuilder.currentModel = null
NoModel == [null |-> TRUE, src |-> "none", of |-> NULL, geometry |-> NoGeometry]

CadModel == [null |-> FALSE, src |-> "cad", of |-> NULL, geometry |-> NoGeometry]

StlMesh(geometry, of) ==
    [null |-> FALSE, src |-> "stl", of |-> of,
     geometry |-> [position |-> geometry.position, normal |-> geometry.normal]]

\* variant: the object stays in the scene
sceneKeep(scn, object) == scn

\* scene.remove(object)
sceneRemove(scn, object) == SelectSeq(scn, LAMBDA o : o # object)

\* scene.add(object)
sceneAdd(scn, object) == Append(scn, object)

\* the outcome of a call: what it returned or the error it threw, with the
\* ModelBuilder state, the scene and the global `model` it left
Outcome(cur, scn, win, ok, error, returned) ==
    [currentModel |-> cur, scene |-> scn, windowModel |-> win,
     ok |-> ok, error |-> error, returned |-> returned]

\* the arguments `new Function` binds for the script
scriptBindings == <<"cad", "THREE", "Math">>

(***************************************************************************)
(* The camera and THREE.Box3.  camera.position is kept in hundredths; box  *)
(* corners and centres are kept doubled, so that the half lengths of a     *)
(* centred primitive stay integral; sizes are in whole units.              *)
(***************************************************************************)
Camera(position, target) == [position |-> position, target |-> target]

\* camera.position.set(7.36, 4.96, 6.93); camera.lookAt(0, 0, 0)
DefaultCamera == Camera(<<736, 496, 693>>, <<0, 0, 0>>)

\* coordinate k (1 = x, 2 = y, 0 = z) of the vertices of a position buffer;
\* the comparisons of Box3 never pick a NaN
axis(position, k) ==
    {position[i] : i \in {j \in 1..Len(position) : j % 3 = k /\ position[j] # NaN}}

EmptyBox == [empty |-> TRUE, min |-> <<0, 0, 0>>, max |-> <<0, 0, 0>>]

\* the box of a buffer whose mesh has rotation.x = -Math.PI / 2: a vertex
\* (x, y, z) is at (x, z, -y) in the world
rotatedBox(xs, ys, zs) ==
    IF xs = {} \/ ys = {} \/ zs = {} THEN EmptyBox
    ELSE [empty |-> FALSE,
          min |-> <<2 * SetMin(xs), 2 * SetMin(zs), 0 - 2 * SetMax(ys)>>,
          max |-> <<2 * SetMax(xs), 2 * SetMax(zs), 0 - 2 * SetMin(ys)>>]

\* new THREE.Box3().setFromObject(object): the cube of side 3 of the sample
\* scripts, centred at the origin, or the box of the rotated STL mesh
Box3(object) ==
    IF object.src = "cad"
    THEN [empty |-> FALSE, min |-> <<-3, -3, -3>>, max |-> <<3, 3, 3>>]
    ELSE rotatedBox(axis(object.geometry.position, 1), axis(object.geometry.position, 2),
                    axis(object.geometry.position, 0))

\* box.getSize(): (0, 0, 0) for an empty box
getSize(box) ==
    IF box.empty THEN <<0, 0, 0>>
    ELSE [k \in 1..3 |-> (box.max[k] - box.min[k]) \div 2]

\* box.getCenter(), doubled: (0, 0, 0) for an empty box
getCenter(box) ==
    IF box.empty THEN <<0, 0, 0>>
    ELSE [k \in 1..3 |-> (box.min[k] + box.max[k]) \div 2]

\* Math.max(size.x, size.y, size.z)
maxOf(size) == SetMax({size[1], size[2], size[3]})

\* camera.position.set(d * 0.7, d * 0.5, d * 0.7); camera.lookAt(center),
\* for d given in tenths
placed(cameraDistance, center) ==
    Camera(<<7 * cameraDistance, 5 * cameraDistance, 7 * cameraDistance>>, center)

\* an outcome together with the camera the call left
positioned(out, cam) ==
    [currentModel |-> out.currentModel, scene |-> out.scene, windowModel |-> out.windowModel,
     ok |-> out.ok, error |-> out.error, returned |-> out.returned, camera |-> cam]

(***************************************************************************)
(* ModelBuilder.build(code, scene).  `typeof model` in the generated       *)
(* function sees the script's own declaration and, failing that, the       *)
(* global window.model.                                                    *)
(***************************************************************************)
build(code, cur, scn, win) ==
    LET cleared == IF ~cur.null THEN sceneRemove(scn, cur) ELSE scn
    IN  IF trim(code.text) = <<>>
        THEN Outcome(NoModel, cleared, win, FALSE, "No code to build", NoModel)
        ELSE IF code.run = "throws"
        THEN Outcome(NoModel, cleared, win, FALSE, "script error", NoModel)
        ELSE IF code.run = "noModel" /\ win = "undefined"
        THEN Outcome(NoModel, cleared, win, FALSE, "No model variable found", NoModel)
        ELSE IF code.run = "falsy"
        THEN Outcome(NoModel, cleared, win, FALSE, "No model returned from code execution",
                     NoModel)
        ELSE Outcome(CadModel, sceneAdd(cleared, CadModel),
                     IF code.run = "objectGlobal" THEN "object" ELSE win,
                     TRUE, "", CadModel)

(***************************************************************************)
(* ThreeJSManager.buildModel(code): the error of build is rethrown         *)
(***************************************************************************)
\* const cameraDistance = maxSize * 1.5 + 2, in tenths
buildDistance(maxSize) == 15 * maxSize + 20

\* the camera after `if (result) { ... }`: placed from result.size and
\* result.center, left alone when build threw
buildCamera(result, cam) ==
    IF result.ok
    THEN placed(buildDistance(maxOf(getSize(Box3(result.returned)))),
                getCenter(Box3(result.returned)))
    ELSE cam

buildModel(code, cur, scn, win, cam) ==
    positioned(build(code, cur, scn, win), buildCamera(build(code, cur, scn, win), cam))

(***************************************************************************)
(* ThreeJSManager.loadSTL(stlData), for the STL of backend model `of`      *)
(***************************************************************************)
\* const cameraDistance = maxSize * 1.5 + 2, in tenths
loadDistance(maxSize) == 15 * maxSize + 20

\* variant: the previous model is cleared before the data is parsed
loadCleared(geometry, mesh, cleared, cur, scn, win, cam) ==
    IF ~geometry.ok
    THEN positioned(Outcome(NoModel, cleared, win, FALSE, geometry.error, NoModel), cam)
    ELSE positioned(Outcome(mesh, sceneAdd(cleared, mesh), win, TRUE, "", mesh),
                    placed(loadDistance(maxOf(getSize(Box3(mesh)))), getCenter(Box3(mesh))))

\* the part of loadSTL after geometry = this.parseSTL(stlData)
loadGeometry(geometry, mesh, cleared, cur, scn, win, cam) ==
    IF ~geometry.ok
    THEN positioned(Outcome(cur, scn, win, FALSE, geometry.error, NoModel), cam)
    ELSE positioned(Outcome(mesh, sceneAdd(cleared, mesh), win, TRUE, "", mesh),
                    placed(loadDistance(maxOf(getSize(Box3(mesh)))), getCenter(Box3(mesh))))

loadMesh(geometry, of, cur, scn, win, cam) ==
    loadGeometry(geometry, StlMesh(geometry, of),
                 IF ~cur.null THEN sceneRemove(scn, cur) ELSE scn, cur, scn, win, cam)

loadSTL(stlData, of, cur, scn, win, cam) ==
    loadMesh(parseSTL(stlData), of, cur, scn, win, cam)

(***************************************************************************)
(* Wireframe display.  `wireframe` is material.wireframe of the meshes of  *)
(* the current model: every mesh is made with a fresh material, and        *)
(* updateWireframe writes the same value to all of them.                   *)
(***************************************************************************)
\* new THREE.MeshStandardMaterial({...}).wireframe
materialWireframe == FALSE

\* ModelBuilder.updateWireframe(wireframeMode)
updateWireframe(cur, flag, mode) == IF ~cur.null THEN mode ELSE flag

\* the flag after buildModel: the new model's materials get the mode; when
\* build threw, updateWireframe is not reached
buildWireframe(ok, cur, flag, mode) ==
    IF ok THEN updateWireframe(cur, materialWireframe, mode) ELSE flag

\* the flag after loadSTL: the material of the new mesh is left as made;
\* when the data was refused the previous model stays
loadWireframe(ok, flag) == IF ok THEN materialWireframe ELSE flag

(***************************************************************************)
(* ThreeJSManager.resetView()                                              *)
(***************************************************************************)
\* variant: the distance of an earlier framing rule
resetDistanceFar(maxSize) == 20 * maxSize + 50

\* const cameraDistance = maxSize * 1.5 + 2, in tenths
resetDistance(maxSize) == 15 * maxSize + 20

resetView(cur) ==
    IF ~cur.null
    THEN placed(resetDistance(maxOf(getSize(Box3(cur)))), getCenter(Box3(cur)))
    ELSE DefaultCamera
(***************************************************************************)
(* ThreeJSManager.setupControls: orbit, pan and zoom.  Lengths are in      *)
(* hundredths like camera.position, angles in 1e-5 rad.  A camera placed   *)
(* by setFromSpherical is kept by its radius and angles, which is what     *)
(* Vector3.length and Spherical.setFromVector3 read back from it.  The     *)
(* handlers are modelled on the positions where their arithmetic is exact: *)
(* on a coordinate axis (the numpad views) and after an orbit.             *)
(***************************************************************************)
\* Math.PI
PI == 314159

\* acos(0), atan2(1, 0)
halfPI == (PI + 1) \div 2

abs(x) == IF x < 0 THEN 0 - x ELSE x

\* new THREE.Spherical(radius, phi, theta)
Spherical(radius, theta, phi) == [radius |-> radius, theta |-> theta, phi |-> phi]

\* the camera after position.setFromSpherical(spherical); lookAt(0, 0, 0)
Orbiting(spherical) == [spherical |-> spherical, target |-> <<0, 0, 0>>]

isCartesian(cam) == "position" \in DOMAIN cam

onAxis(p) == Cardinality({k \in 1..3 : p[k] # 0}) <= 1

\* the cameras whose distance from the origin is a number of hundredths
exact(cam) == IF isCartesian(cam) THEN onAxis(cam.position) ELSE TRUE

\* the camera looks down the y axis, as Numpad7 leaves it: right is
\* (1, 0, 0) and camera.up is (0, 1, 0)
topView(cam) ==
    IF isCartesian(cam)
    THEN cam.position[1] = 0 /\ cam.position[3] = 0 /\ cam.target = <<0, 0, 0>>
    ELSE FALSE

\* camera.position.distanceTo(new THREE.Vector3(0, 0, 0))
length(cam) ==
    IF isCartesian(cam)
    THEN abs(cam.position[1]) + abs(cam.position[2]) + abs(cam.position[3])
    ELSE cam.spherical.radius

\* spherical.setFromVector3(camera.position): radius 0 gives the angles 0;
\* otherwise theta = atan2(x, z) and phi = acos(y / radius)
setFromVector3(cam) ==
    IF ~isCartesian(cam) THEN cam.spherical
    ELSE IF length(cam) = 0 THEN Spherical(0, 0, 0)
    ELSE Spherical(length(cam),
                   IF cam.position[1] > 0 THEN halfPI
                   ELSE IF cam.position[1] < 0 THEN 0 - halfPI
                   ELSE IF cam.position[3] < 0 THEN PI ELSE 0,
                   IF cam.position[2] > 0 THEN 0
                   ELSE IF cam.position[2] < 0 THEN PI ELSE halfPI)

\* camera.position.setFromSpherical(spherical); camera.lookAt(0, 0, 0):
\* radius 0 gives the zero vector
setFromSpherical(spherical) ==
    IF spherical.radius = 0 THEN Camera(<<0, 0, 0>>, <<0, 0, 0>>) ELSE Orbiting(spherical)

\* Math.max(0.1, Math.min(Math.PI - 0.1, phi))
clampPhi(phi) == SetMax({10000, SetMin({PI - 10000, phi})})

\* the orbit branch of the mousemove listener, rotateSpeed = 0.01
orbit(cam, deltaX, deltaY) ==
    setFromSpherical(Spherical(setFromVector3(cam).radius,
                               setFromVector3(cam).theta - 1000 * deltaX,
                               clampPhi(setFromVector3(cam).phi + 1000 * deltaY)))

\* Math.max(0.1, Math.min(10000, newDistance))
clampDistance(newDistance) == SetMax({10, SetMin({1000000, newDistance})})

\* position.normalize().multiplyScalar(s): normalize divides by
\* (length || 1), so the zero vector stays the zero vector
normalizeMultiply(cam, s) ==
    IF isCartesian(cam)
    THEN Camera([k \in 1..3 |-> IF cam.position[k] > 0 THEN s
                                ELSE IF cam.position[k] < 0 THEN 0 - s ELSE 0],
                cam.target)
    ELSE [spherical |-> Spherical(s, cam.spherical.theta, cam.spherical.phi),
          target |-> cam.target]

\* the wheel listener, zoomSpeed = 0.04
zoom(cam, deltaY) == normalizeMultiply(cam, clampDistance(length(cam) + 4 * deltaY))

\* deltaX * panSpeed * distance, panSpeed = 0.002
panBy(delta, distance) == delta * ((2 * distance) \div 1000)

\* panSpeed * distance is a number of hundredths
panExact(distance) == (2 * distance) % 1000 = 0

\* the pan branch of the mousemove listener in the top view:
\* position.addScaledVector(right, panX); position.addScaledVector(up, panY)
pan(cam, deltaX, deltaY) ==
    Camera(<<cam.position[1] + panBy(0 - deltaX, length(cam)),
             cam.position[2] + panBy(deltaY, length(cam)),
             cam.position[3]>>, cam.target)

(***************************************************************************)
(* ASCII STL text written line by line, well formed or not.  A text is a   *)
(* sequence of blocks; each block is one line, three vertex lines, or a    *)
(* complete facet.                                                         *)
(***************************************************************************)
MaxBlocks == 4

BlockKinds ==
    {"facet", "shortFacet", "vertex", "vertices", "shortVertex", "endfacet", "other", "triangle"}

\* "facet normal 0 1 0"
lFacet == <<102, 97, 99, 101, 116, 32, 110, 111, 114, 109, 97, 108, 32, 48, 32, 49, 32, 48>>
\* "facet normal 0": fewer than 5 parts
lShortFacet == <<102, 97, 99, 101, 116, 32, 110, 111, 114, 109, 97, 108, 32, 48>>
\* "vertex 1 2 3"
lVertex == <<118, 101, 114, 116, 101, 120, 32, 49, 32, 50, 32, 51>>
\* "vertex 1": fewer than 4 parts
lShortVertex == <<118, 101, 114, 116, 101, 120, 32, 49>>
\* "  endfacet"
lEndfacet == <<32, 32, 101, 110, 100, 102, 97, 99, 101, 116>>
\* "outer loop"
lOther == <<111, 117, 116, 101, 114, 32, 108, 111, 111, 112>>

\* the text of the block of a kind at place k, each line ended by a line feed
blockText(kind, k) ==
    IF kind = "facet" THEN lFacet \o <<10>>
    ELSE IF kind = "shortFacet" THEN lShortFacet \o <<10>>
    ELSE IF kind = "vertex" THEN lVertex \o <<10>>
    ELSE IF kind = "vertices" THEN lVertex \o <<10>> \o lVertex \o <<13, 10>> \o lVertex \o <<10>>
    ELSE IF kind = "shortVertex" THEN lShortVertex \o <<10>>
    ELSE IF kind = "endfacet" THEN lEndfacet \o <<10>>
    ELSE IF kind = "other" THEN lOther \o <<10>>
    ELSE asciiFacet(k)

RECURSIVE blocksText(_, _)
blocksText(blocks, k) ==
    IF k > Len(blocks) THEN <<>> ELSE blockText(blocks[k], k) \o blocksText(blocks, k + 1)

\* the line kinds a block stands for
blockLines(kind) ==
    IF kind = "vertices" THEN <<"vertex", "vertex", "vertex">>
    ELSE IF kind = "triangle"
    THEN <<"facet", "other", "vertex", "vertex", "vertex", "other", "endfacet">>
    ELSE <<kind>>

RECURSIVE linesOf(_)
linesOf(blocks) == IF blocks = <<>> THEN <<>> ELSE blockLines(Head(blocks)) \o linesOf(Tail(blocks))

AsciiBlocks == UNION {[1..n -> BlockKinds] : n \in 0..MaxBlocks}

\* the text handed to parseASCIISTL, with the lines it was written from
AsciiTexts ==
    { [type |-> "string", data |-> sSolid \o sName \o <<10>> \o blocksText(b, 1),
       enc |-> "ascii", tris |-> 0, wellFormed |-> FALSE, lines |-> linesOf(b)]
      : b \in AsciiBlocks }

(***************************************************************************)
(* CADObject and the THREE objects it wraps.  The objects live in a heap,  *)
(* a sequence of Object3D records addressed by their index; parent 0 is    *)
(* no parent.  A CADObject is the index of its mesh.                       *)
(***************************************************************************)
MaxMeshes == 10
MaxObjects == 3

\* the primitives of the cad factory used in scripts
Shapes == {"cube", "cylinder"}

\* which copy of the CAD engine the page loads: the one that groups
\* (part_001) or the one that calls the CSG library (part_004)
CadEngines == {"grouping", "csg"}

Object3D(kind, shape, parent, children) ==
    [kind |-> kind, shape |-> shape, parent |-> parent, children |-> children]

RECURSIVE subtree(_, _), subtrees(_, _)
\* an object and its descendants, in traversal order
subtree(h, id) == <<id>> \o subtrees(h, h[id].children)

subtrees(h, ids) ==
    IF ids = <<>> THEN <<>> ELSE subtree(h, Head(ids)) \o subtrees(h, Tail(ids))

indexOf(ids, id) == CHOOSE k \in 1..Len(ids) : ids[k] = id

\* variant: the object itself is handed on, not a copy
sameObject(h, id) == [heap |-> h, root |-> id]

\* Object3D.clone(): a recursive copy of the object, without a parent
clone(h, id) ==
    LET ids == subtree(h, id)
        to(old) == Len(h) + indexOf(ids, old)
        copy(k) ==
            Object3D(h[ids[k]].kind, h[ids[k]].shape,
                     IF k = 1 THEN 0 ELSE to(h[ids[k]].parent),
                     [c \in 1..Len(h[ids[k]].children) |-> to(h[ids[k]].children[c])])
    IN  [heap |-> h \o [k \in 1..Len(ids) |-> copy(k)], root |-> Len(h) + 1]

\* Object3D.remove(child)
remove(h, p, c) == [h EXCEPT ![p].children = SelectSeq(@, LAMBDA x : x # c)]

\* Object3D.add(child): a child that has a parent is first removed from it
add(h, g, c) ==
    [(IF h[c].parent # 0 THEN remove(h, h[c].parent, c) ELSE h)
        EXCEPT ![c].parent = g, ![g].children = Append(@, c)]

\* what an operation of CADObject did: the heap after it, the mesh of the
\* CADObject it returned, whether it threw, and the call it made on the CSG
\* library (its arguments and its result)
Result(h, mesh, threw, csgArgs, csgResult) ==
    [heap |-> h, mesh |-> mesh, threw |-> threw, csgArgs |-> csgArgs, csgResult |-> csgResult]

\* group.add(copy) where copy is the root of a freshly made copy
addCopy(copied, g) == add(copied.heap, g, copied.root)

\* a new THREE.Group holding a copy of each mesh of `ids`
grouped(h, ids, k) ==
    LET g == Len(h) + 1
        RECURSIVE fill(_, _)
        fill(hh, j) == IF j > k THEN hh ELSE fill(addCopy(clone(hh, ids[j]), g), j + 1)
    IN  Result(fill(Append(h, Object3D("group", "group", 0, <<>>)), 1), g, FALSE, <<>>, 0)

\* CADObject.union(other)
union(h, a, b) == grouped(h, <<a, b>>, 2)

\* CSG.subtract / CSG.intersect: the library returns a new mesh
csgCall(op, copiedB, a2) ==
    Result(Append(copiedB.heap, Object3D("mesh", op, 0, <<>>)), Len(copiedB.heap) + 1, FALSE,
           <<a2, copiedB.root>>, Len(copiedB.heap) + 1)

csgOperands(op, copiedA, b) == csgCall(op, clone(copiedA.heap, b), copiedA.root)

\* CADObject.subtract(other) / intersect(other)
boolean(engine, csg, op, h, a, b) ==
    IF engine = "grouping"
    THEN \* part_001: a warning, and a group holding a copy of this.mesh
         grouped(h, <<a>>, 1)
    ELSE \* part_004
         IF ~csg THEN Result(h, 0, TRUE, <<>>, 0)
         ELSE csgOperands(op, clone(h, a), b)

RECURSIVE structure(_, _)
\* the shape of an object: its own and, in order, its children's
structure(h, id) ==
    [shape |-> h[id].shape,
     parts |-> [k \in 1..Len(h[id].children) |-> structure(h, h[id].children[k])]]

\* the number of primitives under an object
primitives(h, id) == Cardinality({k \in 1..Len(subtree(h, id)) : h[subtree(h, id)[k]].kind = "mesh"})

(***************************************************************************)
(* AICADGenerator: the pattern tables, parsePrompt and generate.           *)
(***************************************************************************)
\* one entry of a pattern table: the alternatives of its key and its value
Pattern(alternatives, value) == [alternatives |-> alternatives, value |-> value]

\* this.patterns.objects, in the order of Object.entries
objectPatterns ==
    << \* 'mug|cup|coffee': 'mug'
       Pattern(<<<<109, 117, 103>>, <<99, 117, 112>>, <<99, 111, 102, 102, 101, 101>>>>, "mug"),
       \* 'gear|cog|wheel': 'gear'
       Pattern(<<<<103, 101, 97, 114>>, <<99, 111, 103>>, <<119, 104, 101, 101, 108>>>>, "gear"),
       \* 'bolt|screw': 'bolt'
       Pattern(<<<<98, 111, 108, 116>>, <<115, 99, 114, 101, 119>>>>, "bolt"),
       \* 'nut': 'nut'
       Pattern(<<<<110, 117, 116>>>>, "nut"),
       \* 'table|desk': 'table'
       Pattern(<<<<116, 97, 98, 108, 101>>, <<100, 101, 115, 107>>>>, "table"),
       \* 'chair|seat': 'chair'
       Pattern(<<<<99, 104, 97, 105, 114>>, <<115, 101, 97, 116>>>>, "chair"),
       \* 'house|building|home': 'house'
       Pattern(<<<<104, 111, 117, 115, 101>>, <<98, 117, 105, 108, 100, 105, 110, 103>>, <<104, 111, 109, 101>>>>, "house"),
       \* 'box|cube|container': 'box'
       Pattern(<<<<98, 111, 120>>, <<99, 117, 98, 101>>, <<99, 111, 110, 116, 97, 105, 110, 101, 114>>>>, "box"),
       \* 'sphere|ball|orb': 'sphere'
       Pattern(<<<<115, 112, 104, 101, 114, 101>>, <<98, 97, 108, 108>>, <<111, 114, 98>>>>, "sphere"),
       \* 'cylinder|tube|pipe': 'cylinder'
       Pattern(<<<<99, 121, 108, 105, 110, 100, 101, 114>>, <<116, 117, 98, 101>>, <<112, 105, 112, 101>>>>, "cylinder"),
       \* 'phone|smartphone|mobile': 'phone'
       Pattern(<<<<112, 104, 111, 110, 101>>, <<115, 109, 97, 114, 116, 112, 104, 111, 110, 101>>, <<109, 111, 98, 105, 108, 101>>>>, "phone"),
       \* 'case|cover|shell': 'case'
       Pattern(<<<<99, 97, 115, 101>>, <<99, 111, 118, 101, 114>>, <<115, 104, 101, 108, 108>>>>, "case"),
       \* 'vase|pot|vessel': 'vase'
       Pattern(<<<<118, 97, 115, 101>>, <<112, 111, 116>>, <<118, 101, 115, 115, 101, 108>>>>, "vase"),
       \* 'stair|staircase|steps': 'staircase'
       Pattern(<<<<115, 116, 97, 105, 114>>, <<115, 116, 97, 105, 114, 99, 97, 115, 101>>, <<115, 116, 101, 112, 115>>>>, "staircase"),
       \* 'tower|pillar|column': 'tower'
       Pattern(<<<<116, 111, 119, 101, 114>>, <<112, 105, 108, 108, 97, 114>>, <<99, 111, 108, 117, 109, 110>>>>, "tower"),
       \* 'bracket|mount|support': 'bracket'
       Pattern(<<<<98, 114, 97, 99, 107, 101, 116>>, <<109, 111, 117, 110, 116>>, <<115, 117, 112, 112, 111, 114, 116>>>>, "bracket") >>

\* this.patterns.features
featurePatterns ==
    << \* 'handle|grip': 'handle'
       Pattern(<<<<104, 97, 110, 100, 108, 101>>, <<103, 114, 105, 112>>>>, "handle"),
       \* 'hole|opening|cavity': 'hole'
       Pattern(<<<<104, 111, 108, 101>>, <<111, 112, 101, 110, 105, 110, 103>>, <<99, 97, 118, 105, 116, 121>>>>, "hole"),
       \* 'teeth|tooth|cog': 'teeth'
       Pattern(<<<<116, 101, 101, 116, 104>>, <<116, 111, 111, 116, 104>>, <<99, 111, 103>>>>, "teeth"),
       \* 'legs|supports|stands': 'legs'
       Pattern(<<<<108, 101, 103, 115>>, <<115, 117, 112, 112, 111, 114, 116, 115>>, <<115, 116, 97, 110, 100, 115>>>>, "legs"),
       \* 'roof|top|cap': 'roof'
       Pattern(<<<<114, 111, 111, 102>>, <<116, 111, 112>>, <<99, 97, 112>>>>, "roof"),
       \* 'walls|sides': 'walls'
       Pattern(<<<<119, 97, 108, 108, 115>>, <<115, 105, 100, 101, 115>>>>, "walls"),
       \* 'rounded|smooth|curved': 'rounded'
       Pattern(<<<<114, 111, 117, 110, 100, 101, 100>>, <<115, 109, 111, 111, 116, 104>>, <<99, 117, 114, 118, 101, 100>>>>, "rounded"),
       \* 'sharp|angular|square': 'angular'
       Pattern(<<<<115, 104, 97, 114, 112>>, <<97, 110, 103, 117, 108, 97, 114>>, <<115, 113, 117, 97, 114, 101>>>>, "angular") >>

\* this.templates: the method stored for an object type and the generator
\* that method ends in (generateBolt returns this.generateCylinder(parsed))
templates ==
    { <<"mug", "generateMug">>,
      <<"gear", "generateGear">>,
      <<"bolt", "generateCylinder">>,
      <<"nut", "generateCylinder">>,
      <<"table", "generateBox">>,
      <<"house", "generateBox">>,
      <<"box", "generateBox">>,
      <<"sphere", "generateSphere">>,
      <<"cylinder", "generateCylinder">>,
      <<"case", "generateBox">>,
      <<"vase", "generateCylinder">>,
      <<"staircase", "generateBox">>,
      <<"tower", "generateCylinder">>,
      <<"bracket", "generateBox">> }

\* String.prototype.toLowerCase, for ASCII text
toLowerCase(s) == [i \in 1..Len(s) |-> IF s[i] \in 65..90 THEN s[i] + 32 ELSE s[i]]

\* new RegExp(pattern, 'i').test(text) for a pattern of literal alternatives
testPattern(pattern, text) ==
    \E k \in 1..Len(pattern.alternatives) :
        contains(toLowerCase(text), toLowerCase(pattern.alternatives[k]))

\* the loop over Object.entries(this.patterns.objects) with its break: the
\* value of the first entry whose pattern matches, null when none does
firstMatch(table, text) ==
    LET hits == {k \in 1..Len(table) : testPattern(table[k], text)}
    IN  IF hits = {} THEN NULL ELSE table[SetMin(hits)].value

\* the loop over the feature patterns: every matching feature, in table order
allMatches(table, text) ==
    LET hit(k) == testPattern(table[k], text)
        RECURSIVE from(_)
        from(k) == IF k > Len(table) THEN <<>>
                   ELSE IF hit(k) THEN <<table[k].value>> \o from(k + 1)
                   ELSE from(k + 1)
    IN  from(1)

\* parsePrompt(prompt); the prompts of the model hold no digit, so that
\* prompt.match(...) is null and dimensions stays []
parsePrompt(prompt) ==
    [object |-> firstMatch(objectPatterns, toLowerCase(prompt)),
     features |-> allMatches(featurePatterns, toLowerCase(prompt)),
     dimensions |-> <<>>, style |-> "default"]

\* what generate returned or threw
Generated(prompt, object, code) ==
    [pc |-> "done", prompt |-> prompt, object |-> object, threw |-> FALSE, error |-> "",
     code |-> code]

GenerateThrew(prompt, object, error) ==
    [pc |-> "done", prompt |-> prompt, object |-> object, threw |-> TRUE, error |-> error,
     code |-> "none"]

\* the part of generate after parsePrompt: the fallback to 'box', the look-up
\* in this.templates and the call of the generator
generateFor(prompt, object) ==
    IF \E t \in templates : t[1] = object
    THEN Generated(prompt, object, (CHOOSE t \in templates : t[1] = object)[2])
    ELSE GenerateThrew(prompt, object, "No generator found for object")

generate(prompt) ==
    generateFor(prompt, IF parsePrompt(prompt).object = NULL THEN "box"
                        ELSE parsePrompt(prompt).object)

\* no call of generate yet
NoGeneration ==
    [pc |-> "idle", prompt |-> <<>>, object |-> "none", threw |-> FALSE, error |-> "",
     code |-> "none"]

\* generate was called and waits for its timer
Analyzing(prompt) ==
    [pc |-> "timer", prompt |-> prompt, object |-> "none", threw |-> FALSE, error |-> "",
     code |-> "none"]

\* the words of the prompts of the model: a, Coffee, table, chair, SEAT,
\* phone, donut, cog, widget, box, staircase, with, handle, top
Words ==
    { <<97>>,
      <<67, 111, 102, 102, 101, 101>>,
      <<116, 97, 98, 108, 101>>,
      <<99, 104, 97, 105, 114>>,
      <<83, 69, 65, 84>>,
      <<112, 104, 111, 110, 101>>,
      <<100, 111, 110, 117, 116>>,
      <<99, 111, 103>>,
      <<119, 105, 100, 103, 101, 116>>,
      <<98, 111, 120>>,
      <<115, 116, 97, 105, 114, 99, 97, 115, 101>>,
      <<119, 105, 116, 104>>,
      <<104, 97, 110, 100, 108, 101>>,
      <<116, 111, 112>> }

\* prompts of one or two words
GenPrompts == Words \cup {a \o <<32>> \o b : a \in Words, b \in Words}

(***************************************************************************)
(* AuthService                                                             *)
(***************************************************************************)
UserIds == {"u1"}
ModelIds == {"m1", "m2"}

\* model_count values the analytics backend may answer with
BackendCounts == {9, 10, 11}

\* variant: the limit itself still passes
canGenerateModelInclusive(signedIn, count) == signedIn /\ count <= maxModels

canGenerateModel(signedIn, count) == signedIn /\ count < maxModels

getRemainingModels(count) == maxModels - count

getUsagePercentage(count) == (count * 100) \div maxModels

getAuthState(signedIn, usr, count) ==
    [null |-> FALSE, isSignedIn |-> signedIn, user |-> usr, modelCount |-> count,
     maxModels |-> maxModels, canGenerate |-> canGenerateModel(signedIn, count),
     remaining |-> getRemainingModels(count),
     usagePercentage |-> getUsagePercentage(count)]

\* no auth state was received yet (this.authState = null)
NoAuthState ==
    [null |-> TRUE, isSignedIn |-> FALSE, user |-> NULL, modelCount |-> 0,
     maxModels |-> maxModels, canGenerate |-> FALSE, remaining |-> 0, usagePercentage |-> 0]

\* localStorage item tempUserData
NoUserData == [present |-> FALSE, user |-> NULL, modelCount |-> 0]

saveLocalUserData(usr, count) == [present |-> TRUE, user |-> usr, modelCount |-> count]

\* userData.model_count || 0, for a numeric count
orZero(count) == IF count = 0 THEN 0 ELSE count

\* setAuthStateListener(callback): the one listener slot is overwritten
setAuthStateListener(current, callback) == callback

(***************************************************************************)
(* Asynchronous calls in flight.  A task is a handler suspended at an      *)
(* await: kind is the flow, pc the request it waits for, caller who        *)
(* started a sign-in, modelId the model of the flow, hist the steps the    *)
(* flow has performed, in order, since the backend's successful response.  *)
(***************************************************************************)
Task(kind, pc, caller, modelId, hist) ==
    [kind |-> kind, pc |-> pc, caller |-> caller, modelId |-> modelId, hist |-> hist]

VARIABLES
    user, isSignedIn, modelCount, csrfToken, tempUserData,  \* AuthService fields, localStorage
    onAuthStateChanged,                                     \* the registered listener
    sessionCheck,                                           \* checkExistingSession: fetch, timer, done
    headerAuth,                                             \* what HeaderComponent displays
    authState, authBanner, generateBtnDisabled, promptInputDisabled,
    generateText, currentModelId, codeEditor, console,      \* SidebarComponent
    tasks,                                                  \* suspended handlers
    currentModel, scene, windowModel, lastCall,  \* ModelBuilder, THREE scene, global `model`, last call
    camera,                                                 \* the camera of the ThreeJSManager
    wireframeMode, wireframe,                               \* ThreeJSManager.wireframeMode, material.wireframe
    mouseDown, rightMouseDown, mouseX, mouseY,              \* the closure of ThreeJSManager.setupControls
    stlFile, parsed, parsedBinary, parsedAscii,             \* decoder input and results
    heap, objects, csgLoaded, cadEngine, lastOp,            \* THREE objects, CADObjects, CSG global
    generation,                                             \* the last call of AICADGenerator.generate
    authCall                                                \* the last signIn / signOut that returned

authVars == <<user, isSignedIn, modelCount, csrfToken, tempUserData>>
bootVars == <<onAuthStateChanged, sessionCheck>>
authUIVars == <<authState, authBanner, generateBtnDisabled, promptInputDisabled>>
sidebarVars == <<generateText, currentModelId, codeEditor, console>>
controlVars == <<mouseDown, rightMouseDown, mouseX, mouseY>>
threeVars == <<currentModel, scene, windowModel, lastCall, camera, wireframeMode, wireframe,
               controlVars>>
stlVars == <<stlFile, parsed, parsedBinary, parsedAscii>>
cadVars == <<heap, objects, csgLoaded, cadEngine, lastOp>>
genVars == <<generation>>
svcVars == <<authCall>>
libVars == <<cadVars, genVars, svcVars>>

vars == <<authVars, bootVars, headerAuth, authUIVars, sidebarVars, tasks, threeVars, stlVars,
          libVars>>

\* the last call made directly on the ThreeJSManager, with its outcome
Call(call, input, ok, error, returned, bindings) ==
    [call |-> call, input |-> input, ok |-> ok, error |-> error, returned |-> returned,
     bindings |-> bindings]

NoCall == Call("none", <<>>, FALSE, "", NoModel, <<>>)

\* the response of a session request: it threw, or it completed with a
\* status (ok or not) and, for create-session, the user and CSRF token
Response(thrown, ok, usr, count, token) ==
    [thrown |-> thrown, ok |-> ok, user |-> usr, model_count |-> count, csrf_token |-> token]

NoResponse == Response(FALSE, FALSE, NULL, 0, NULL)

\* create-session failed: fetch threw, or the status was not OK
FailedSessions == {Response(TRUE, FALSE, NULL, 0, NULL), NoResponse}

\* destroy-session: fetch threw, or it completed with some status
SignOutResponses ==
    {Response(TRUE, FALSE, NULL, 0, NULL), NoResponse, Response(FALSE, TRUE, NULL, 0, NULL)}

\* a call of the AuthService that returned: the response it got, the value
\* it returned and the number of notifications it sent
AuthCall(call, response, returned, notified) ==
    [call |-> call, response |-> response, returned |-> returned, notified |-> notified]

NoAuthCall == AuthCall("none", NoResponse, FALSE, 0)

\* variant: signIn reports success whatever the response
signInAlwaysTrue(response) ==
    AuthCall("signIn", response, TRUE, IF response.ok THEN 1 ELSE 0)

\* signIn: `return true` after the notification, `return false` in catch
signInReturns(response) ==
    AuthCall("signIn", response, response.ok, IF response.ok THEN 1 ELSE 0)

\* variant: signOut reports the status of the response
signOutByStatus(response) ==
    AuthCall("signOut", response, response.ok, IF response.thrown THEN 0 ELSE 1)

\* signOut: `return true` after the notification, `return false` in catch
signOutReturns(response) ==
    AuthCall("signOut", response, ~response.thrown, IF response.thrown THEN 0 ELSE 1)

\* The state once the page is loaded: the AuthService constructor has sent
\* the current-user request, and AICADApp.init has rendered the header and
\* then the sidebar, each registering its auth listener.
AppInit ==
    /\ user = NULL /\ isSignedIn = FALSE /\ modelCount = 0 /\ csrfToken = NULL
    /\ tempUserData = NoUserData
    /\ onAuthStateChanged =
          setAuthStateListener(setAuthStateListener("none", "header"), "sidebar")
    /\ sessionCheck = "fetch"
    /\ headerAuth = NoAuthState
    /\ authState = NoAuthState /\ authBanner = FALSE
    /\ generateBtnDisabled = FALSE /\ promptInputDisabled = FALSE
    /\ generateText = "Generate 3D Model" /\ currentModelId = NULL
    /\ codeEditor = Script(tBasicShapes, "object")
    /\ console = <<>>
    /\ tasks = {}
    /\ currentModel = NoModel /\ scene = <<>> /\ windowModel = "undefined" /\ lastCall = NoCall
    /\ camera = DefaultCamera
    /\ wireframeMode = FALSE /\ wireframe = materialWireframe
    /\ mouseDown = FALSE /\ rightMouseDown = FALSE /\ mouseX = 0 /\ mouseY = 0
    /\ authCall = NoAuthCall

\* no data: nothing handed to the decoder, or a download that throws,
\* answers with an error status or has an empty body
NoFile == [type |-> "none", data |-> <<>>, enc |-> "none", tris |-> 0, wellFormed |-> FALSE]

STLIdle ==
    /\ stlFile = NoFile
    /\ parsed = NoResult
    /\ parsedBinary = NoResult
    /\ parsedAscii = NoResult

\* an operation of the CAD engine, with its operands and what it did
Op(op, a, b, result) ==
    [op |-> op, a |-> a, b |-> b, mesh |-> result.mesh, threw |-> result.threw,
     csgArgs |-> result.csgArgs, csgResult |-> result.csgResult]

NoOp == Op("none", 0, 0, Result(<<>>, 0, FALSE, <<>>, 0))

\* no script has created an object
CadIdle ==
    /\ heap = <<>> /\ objects = {}
    /\ csgLoaded = FALSE /\ cadEngine = "grouping"
    /\ lastOp = NoOp

\* generate was never called
GenIdle == generation = NoGeneration

Init == AppInit /\ STLIdle /\ CadIdle /\ GenIdle

(***************************************************************************)
(* notifyAuthStateChanged: the snapshot goes to the registered listener.   *)
(* SidebarComponent's listener stores it and runs updateAuthUI;            *)
(* HeaderComponent's listener runs its own updateAuthUI.  `thenReset` is   *)
(* set when the caller's finally block re-enables the Generate button      *)
(* after the notification.                                                 *)
(***************************************************************************)
limitReached(sn) == sn.isSignedIn /\ ~sn.canGenerate

\* SidebarComponent.updateAuthUI(authState): banner, button, prompt box
updateAuthUI(sn) ==
    [authBanner |-> ~sn.isSignedIn,
     generateBtnDisabled |-> limitReached(sn),
     promptInputDisabled |-> limitReached(sn)]

notifyAuthStateChanged(sn, thenReset) ==
    /\ IF onAuthStateChanged = "sidebar"
       THEN /\ authState' = sn
            /\ authBanner' = updateAuthUI(sn).authBanner
            /\ generateBtnDisabled' =
                 (IF thenReset THEN FALSE ELSE updateAuthUI(sn).generateBtnDisabled)
            /\ promptInputDisabled' = updateAuthUI(sn).promptInputDisabled
       ELSE /\ UNCHANGED <<authState, authBanner, promptInputDisabled>>
            /\ generateBtnDisabled' = (IF thenReset THEN FALSE ELSE generateBtnDisabled)
    /\ headerAuth' = IF onAuthStateChanged = "header" THEN sn ELSE headerAuth

\* no notification; the finally block may still re-enable the button
noNotification(thenReset) ==
    /\ UNCHANGED <<authState, authBanner, promptInputDisabled, headerAuth>>
    /\ generateBtnDisabled' = (IF thenReset THEN FALSE ELSE generateBtnDisabled)

(***************************************************************************)
(* AuthService.checkExistingSession                                        *)
(***************************************************************************)
\* the response of /analytics/auth/current-user
SessionCheckResponse ==
    /\ sessionCheck = "fetch"
    /\ sessionCheck' = "timer"
    /\ \/ \E u \in UserIds, count \in BackendCounts :
            /\ user' = u /\ isSignedIn' = TRUE /\ modelCount' = count
            /\ UNCHANGED <<csrfToken, tempUserData>>
       \/ UNCHANGED authVars
    /\ UNCHANGED <<onAuthStateChanged, headerAuth, authUIVars, sidebarVars, tasks,
                   threeVars, stlVars, libVars>>

\* setTimeout(() => this.notifyAuthStateChanged(), 100)
SessionCheckNotify ==
    /\ sessionCheck = "timer"
    /\ sessionCheck' = "done"
    /\ notifyAuthStateChanged(getAuthState(isSignedIn, user, modelCount), FALSE)
    /\ UNCHANGED <<authVars, onAuthStateChanged, sidebarVars, tasks, threeVars, stlVars, libVars>>

(***************************************************************************)
(* User input.  The e-mail modal of promptForEmail covers the page, so no  *)
(* button is clicked while it is open.                                     *)
(***************************************************************************)
\* "mug"
tMug == <<109, 117, 103>>

Prompts == {tBlank, tMug}

\* what the user types into the code editor
EditorSamples ==
    { Script(tBlank, "noModel"), Script(tBasicShapes, "object"), Script(tSyntax, "throws"),
      Script(tBadCAD, "throws"), Script(tBoth, "throws"), Script(tOther, "throws") }

\* The suspended handlers form a multiset, kept as the set of pairs
\* <<t, k>>, k = 1 .. number of handlers suspended in the same state t.
Running == {x[1] : x \in tasks}

copies(t, among) == Cardinality({x \in among : x[1] = t})

TasksAt(kind, pc) == {t \in Running : t.kind = kind /\ t.pc = pc}

ModalOpen == \E t \in Running : t.pc = "email"

CanClick == ~ModalOpen

CanStart == Cardinality(tasks) < MaxTasks

start(t) == tasks \cup {<<t, copies(t, tasks) + 1>>}

finish(t) == tasks \ {<<t, copies(t, tasks)>>}

replace(t, u) == LET rest == finish(t) IN rest \cup {<<u, copies(u, rest) + 1>>}

(***************************************************************************)
(* SidebarComponent.generateFromPrompt, up to its first await              *)
(***************************************************************************)
generateFromPrompt(prompt) ==
    /\ IF trim(prompt) = <<>>
       THEN /\ console' = <<"Please enter a prompt">>
            /\ UNCHANGED <<generateBtnDisabled, generateText, currentModelId, tasks>>
       ELSE IF authState.null \/ ~authState.isSignedIn
       THEN \* await window.authService.signIn()
            /\ CanStart
            /\ console' = <<"Please enter your email to generate models">>
            /\ tasks' = start(Task("signIn", "email", "generate", NULL, <<>>))
            /\ UNCHANGED <<generateBtnDisabled, generateText, currentModelId>>
       ELSE IF ~authState.canGenerate
       THEN /\ console' = <<"Model generation limit reached">>
            /\ UNCHANGED <<generateBtnDisabled, generateText, currentModelId, tasks>>
       ELSE \* await fetch(.../api/generate)
            /\ CanStart
            /\ generateBtnDisabled' = TRUE
            /\ generateText' = "Generating..."
            /\ currentModelId' = NULL
            /\ console' = <<"Sending prompt to backend">>
            /\ tasks' = start(Task("generate", "fetch", "sidebar", NULL, <<>>))
    /\ UNCHANGED <<authVars, bootVars, headerAuth, authState, authBanner, promptInputDisabled,
                   codeEditor, threeVars, stlVars, libVars>>

\* click on the Generate button
ClickGenerate ==
    /\ CanClick
    /\ ~generateBtnDisabled
    /\ \E prompt \in Prompts : generateFromPrompt(prompt)

\* Enter (without Shift) in the prompt box
PromptEnter ==
    /\ CanClick
    /\ ~promptInputDisabled
    /\ \E prompt \in Prompts : generateFromPrompt(prompt)

(***************************************************************************)
(* AuthService.signIn                                                      *)
(***************************************************************************)
\* the header's sign-in button (shown by the header's 10 s fallback)
HeaderSignIn ==
    /\ CanClick /\ CanStart
    /\ tasks' = start(Task("signIn", "email", "header", NULL, <<>>))
    /\ console' = <<>>
    /\ UNCHANGED <<authVars, bootVars, headerAuth, authUIVars, generateText, currentModelId,
                   codeEditor, threeVars, stlVars, libVars>>

\* click on the sidebar's auth banner
BannerClick ==
    /\ CanClick /\ CanStart
    /\ authBanner
    /\ tasks' = start(Task("signIn", "email", "banner", NULL, <<>>))
    /\ console' = <<>>
    /\ UNCHANGED <<authVars, bootVars, headerAuth, authUIVars, generateText, currentModelId,
                   codeEditor, threeVars, stlVars, libVars>>

\* promptForEmail resolves (the form accepts only a valid e-mail); signIn
\* sends the create-session request
EmailSubmitted ==
    \E t \in TasksAt("signIn", "email") :
        /\ tasks' = replace(t, [t EXCEPT !.pc = "session"])
        /\ console' = <<>>
        /\ UNCHANGED <<authVars, bootVars, headerAuth, authUIVars, generateText, currentModelId,
                       codeEditor, threeVars, stlVars, libVars>>

\* the create-session response; then the caller's continuation
SessionResponse ==
    \E t \in TasksAt("signIn", "session") :
        /\ tasks' = finish(t)
        /\ console' = <<>>
        /\ \/ \* OK: store token and identity, save, notify, return true.  The
              \* caller then reads getAuthState(), the snapshot just notified:
              \* generateFromPrompt stores it in this.authState, the banner
              \* handler passes it to updateAuthUI
              \E u \in UserIds, count \in BackendCounts :
                 LET sn == getAuthState(TRUE, u, count)
                     toSidebar == onAuthStateChanged = "sidebar"
                 IN  /\ authCall' = signInReturns(Response(FALSE, TRUE, u, count, "token"))
                     /\ csrfToken' = "token"
                     /\ user' = u /\ isSignedIn' = TRUE /\ modelCount' = count
                     /\ tempUserData' = saveLocalUserData(u, count)
                     /\ authState' = IF toSidebar \/ t.caller = "generate" THEN sn ELSE authState
                     /\ authBanner' = IF toSidebar \/ t.caller = "banner"
                                      THEN updateAuthUI(sn).authBanner ELSE authBanner
                     /\ generateBtnDisabled' = IF toSidebar \/ t.caller = "banner"
                                      THEN updateAuthUI(sn).generateBtnDisabled
                                      ELSE generateBtnDisabled
                     /\ promptInputDisabled' = IF toSidebar \/ t.caller = "banner"
                                      THEN updateAuthUI(sn).promptInputDisabled
                                      ELSE promptInputDisabled
                     /\ headerAuth' = IF onAuthStateChanged = "header" THEN sn ELSE headerAuth
           \/ \* the request throws or the status is not OK: alert, return false
              /\ \E response \in FailedSessions : authCall' = signInReturns(response)
              /\ UNCHANGED <<authVars, headerAuth, authUIVars>>
        /\ UNCHANGED <<bootVars, generateText, currentModelId, codeEditor, threeVars, stlVars,
                       cadVars, genVars>>

(***************************************************************************)
(* AuthService.signOut                                                     *)
(***************************************************************************)
\* the sign-out button's handler, authService.signOut()
SignOut ==
    /\ CanClick /\ CanStart
    /\ tasks' = start(Task("signOut", "fetch", "header", NULL, <<>>))
    /\ console' = <<>>
    /\ UNCHANGED <<authVars, bootVars, headerAuth, authUIVars, generateText, currentModelId,
                   codeEditor, threeVars, stlVars, libVars>>

\* the destroy-session response
SignOutResponse ==
    \E t \in TasksAt("signOut", "fetch") :
        /\ tasks' = finish(t)
        /\ console' = <<>>
        /\ \E response \in SignOutResponses : authCall' = signOutReturns(response)
        /\ \/ \* the request completes, whatever its status
              /\ ~authCall'.response.thrown
              /\ user' = NULL /\ isSignedIn' = FALSE /\ modelCount' = 0 /\ csrfToken' = NULL
              /\ tempUserData' = NoUserData
              /\ notifyAuthStateChanged(getAuthState(FALSE, NULL, 0), FALSE)
           \/ \* the request throws
              /\ authCall'.response.thrown
              /\ UNCHANGED <<authVars, headerAuth, authUIVars>>
        /\ UNCHANGED <<bootVars, generateText, currentModelId, codeEditor, threeVars, stlVars,
                       cadVars, genVars>>

(***************************************************************************)
(* SidebarComponent.generateFromPrompt / executeBadCADCode after the       *)
(* backend answered, SidebarComponent.loadSTLModel, AuthService.loadUserData*)
(***************************************************************************)
GenerateSteps == <<"currentModelId", "codeEditor", "loadSTLModel", "loadUserData">>
ExecuteSteps == <<"currentModelId", "loadSTLModel", "loadUserData">>

\* the generated code the backend returns (result.badcad_code)
BackendCode == Script(tBadCAD, "throws")

\* the messages of the catch block of generateFromPrompt: fetch threw (the
\* error text names `fetch` or not, by browser), the status was not OK, or
\* result.success was false
GenerateFailures ==
    { <<"Generation Error", "Backend unavailable">>,
      <<"Generation Error">>,
      <<"error message", "action message", "Generation Error">> }

\* the /api/generate response
GenerateResponse ==
    \E t \in TasksAt("generate", "fetch") :
        /\ \/ \* success: store the id, show the code, then await loadSTLModel
              \E id \in ModelIds :
                 /\ currentModelId' = id
                 /\ codeEditor' = BackendCode
                 /\ console' = <<"success message", "Loading STL model...">>
                 /\ tasks' = replace(t, [t EXCEPT !.pc = "stl", !.modelId = id,
                                 !.hist = <<"currentModelId", "codeEditor", "loadSTLModel">>])
                 /\ UNCHANGED <<generateBtnDisabled, generateText>>
           \/ \* failure: catch logs, finally resets the button
              \E msgs \in GenerateFailures :
                 /\ console' = msgs
                 /\ generateBtnDisabled' = FALSE
                 /\ generateText' = "Generate 3D Model"
                 /\ tasks' = finish(t)
                 /\ UNCHANGED <<currentModelId, codeEditor>>
        /\ UNCHANGED <<authVars, bootVars, headerAuth, authState, authBanner,
                       promptInputDisabled, threeVars, stlVars, libVars>>

\* the /api/execute response
ExecuteResponse ==
    \E t \in TasksAt("execute", "fetch") :
        /\ \/ \E id \in ModelIds :
                 /\ currentModelId' = id
                 /\ console' = <<"success message", "Loading STL model...">>
                 /\ tasks' = replace(t, [t EXCEPT !.pc = "stl", !.modelId = id,
                                 !.hist = <<"currentModelId", "loadSTLModel">>])
           \/ /\ console' = <<"BadCAD Execution Error">>
              /\ tasks' = finish(t)
              /\ UNCHANGED currentModelId
        /\ UNCHANGED <<authVars, bootVars, headerAuth, authUIVars, generateText, codeEditor,
                       threeVars, stlVars, libVars>>

\* variant: loadSTLModel lets a loading error reach its caller
loadSTLModelRethrows(loaded) == loaded

\* loadSTLModel wraps its whole body in try/catch: whether or not the STL
\* was loaded, it returns normally to its caller
loadSTLModelReturns(loaded) == TRUE

\* loadSTLModel after the download, with the outcome of loadSTL; its caller
\* then calls loadUserData, which returns at once when nobody is signed in
\* and otherwise sends the current-user request.
stlLoaded(t, d, out) ==
    LET msgs == IF d = NoFile THEN <<"STL Loading Error">>
                ELSE IF out.ok
                THEN <<"STL file downloaded", "STL model loaded successfully!">>
                ELSE <<"STL file downloaded", "STL Loading Error">>
        ends == \* the handler's finally block, for generateFromPrompt
            /\ tasks' = finish(t)
            /\ generateBtnDisabled' =
                  (IF t.kind = "generate" THEN FALSE ELSE generateBtnDisabled)
            /\ generateText' =
                  (IF t.kind = "generate" THEN "Generate 3D Model" ELSE generateText)
    IN  /\ t.pc = "stl"
        /\ currentModel' = out.currentModel
        /\ scene' = out.scene
        /\ camera' = out.camera
        /\ wireframe' = loadWireframe(out.ok, wireframe)
        /\ UNCHANGED <<windowModel, lastCall, wireframeMode, controlVars>>
        /\ IF ~loadSTLModelReturns(out.ok)
           THEN \* the error reaches the handler's catch block
                /\ console' = Append(msgs, IF t.kind = "generate" THEN "Generation Error"
                                           ELSE "BadCAD Execution Error")
                /\ ends
           ELSE IF ~isSignedIn \/ user = NULL
           THEN \* loadUserData returns; the flow ends
                /\ console' = msgs
                /\ ends
           ELSE /\ console' = msgs
                /\ tasks' = replace(t, [t EXCEPT !.pc = "usage", !.modelId = NULL,
                                                 !.hist = Append(t.hist, "loadUserData")])
                /\ UNCHANGED <<generateBtnDisabled, generateText>>
        /\ UNCHANGED <<authVars, bootVars, headerAuth, authState, authBanner,
                       promptInputDisabled, currentModelId, codeEditor, stlVars, libVars>>

\* The /api/download response inside loadSTLModel
StlResponse ==
    \E t \in Running :
      \E d \in Downloads \cup {NoFile} :
        stlLoaded(t, d, IF d = NoFile
                        THEN positioned(Outcome(currentModel, scene, windowModel, FALSE,
                                                "Failed to download", NoModel), camera)
                        ELSE loadSTL(d, t.modelId, currentModel, scene, windowModel, camera))

\* loadUserData: the current-user response; then the flow ends
UsageResponse ==
    \E t \in Running :
        /\ t.pc = "usage"
        /\ tasks' = finish(t)
        /\ console' = <<>>
        /\ generateText' = (IF t.kind = "generate" THEN "Generate 3D Model" ELSE generateText)
        /\ \/ \* OK: take the count, save, notify
              \E count \in BackendCounts :
                 /\ modelCount' = orZero(count)
                 /\ tempUserData' = saveLocalUserData(user, orZero(count))
                 /\ notifyAuthStateChanged(getAuthState(isSignedIn, user, orZero(count)),
                                           t.kind = "generate")
                 /\ UNCHANGED <<user, isSignedIn, csrfToken>>
           \/ \* status not OK, or the request throws
              /\ noNotification(t.kind = "generate")
              /\ UNCHANGED authVars
        /\ UNCHANGED <<bootVars, currentModelId, codeEditor, threeVars, stlVars, libVars>>

(***************************************************************************)
(* SidebarComponent.buildModel, isBadCADCode, executeBadCADCode (up to its *)
(* await), downloadSTL                                                     *)
(***************************************************************************)
isBadCADCode(code) ==
    \/ matchesCall(code, sSquare)
    \/ matchesCall(code, sCircle)
    \/ matchesCall(code, sPolygon)
    \/ matchesCall(code, sOffset)
    \/ contains(code, sExtrude)
    \/ contains(code, sRevolve)
    \/ matchesCall(code, sExtrudeTo)
    \/ contains(code, sFromBadcad)
    \/ matchesImportBadcad(code)

\* variant: code that also matches a BadCAD pattern is not taken as CAD code
isCadCodeOnly(code) == contains(code, sCad) /\ ~isBadCADCode(code)

\* /cad\./.test(code)
isCadCode(code) == contains(code, sCad)

\* variant: the BadCAD patterns are tried before /cad\./
routeBadCADFirst(code) ==
    IF trim(code) = <<>> THEN "empty"
    ELSE IF isBadCADCode(code) THEN "badcad"
    ELSE IF isCadCode(code) THEN "cad"
    ELSE "unknown"

\* the branch SidebarComponent.buildModel takes for the editor's code
route(code) ==
    IF trim(code) = <<>> THEN "empty"
    ELSE IF isCadCode(code) THEN "cad"
    ELSE IF isBadCADCode(code) THEN "badcad"
    ELSE "unknown"

\* the user types in the code editor
EditCode ==
    /\ CanClick
    /\ \E code \in EditorSamples : codeEditor' = code
    /\ console' = <<>>
    /\ UNCHANGED <<authVars, bootVars, headerAuth, authUIVars, generateText, currentModelId,
                   tasks, threeVars, stlVars, libVars>>

\* the local build of BUILD MODEL: the error of buildModel is caught and
\* logged
codeBuilt(out) ==
    /\ currentModelId' = NULL
    /\ camera' = out.camera
    /\ wireframe' = buildWireframe(out.ok, out.currentModel, wireframe, wireframeMode)
    /\ currentModel' = out.currentModel
    /\ scene' = out.scene
    /\ windowModel' = out.windowModel
    /\ console' = <<"Code detection", "Building CAD model...",
                    IF out.ok THEN "Model built successfully!" ELSE "Error">>
    /\ UNCHANGED <<tasks, lastCall, wireframeMode, controlVars>>

\* click on BUILD MODEL
ClickBuild ==
    /\ CanClick
    /\ LET code == codeEditor.text
       IN  IF route(code) = "empty"
           THEN /\ console' = <<"No code to build">>
                /\ UNCHANGED <<currentModelId, tasks, threeVars>>
           ELSE IF route(code) = "cad"
           THEN codeBuilt(buildModel(codeEditor, currentModel, scene, windowModel, camera))
           ELSE IF route(code) = "badcad"
           THEN \* executeBadCADCode(code)
                IF authState.null \/ ~authState.isSignedIn
                THEN /\ console' = <<"Code detection", "Executing BadCAD code...",
                                     "Please sign in to execute BadCAD code">>
                     /\ UNCHANGED <<currentModelId, tasks, threeVars>>
                ELSE IF ~authState.canGenerate
                THEN /\ console' = <<"Code detection", "Executing BadCAD code...",
                                     "Model generation limit reached">>
                     /\ UNCHANGED <<currentModelId, tasks, threeVars>>
                ELSE /\ CanStart
                     /\ console' = <<"Code detection", "Executing BadCAD code...">>
                     /\ tasks' = start(Task("execute", "fetch", "sidebar", NULL, <<>>))
                     /\ UNCHANGED <<currentModelId, threeVars>>
           ELSE /\ console' = <<"Code detection", "Code not recognized">>
                /\ UNCHANGED <<currentModelId, tasks, threeVars>>
    /\ UNCHANGED <<authVars, bootVars, headerAuth, authUIVars, generateText, codeEditor,
                   stlVars, libVars>>

(***************************************************************************)
(* A script using the CAD engine: it creates primitives and combines the   *)
(* CADObjects it holds.                                                    *)
(***************************************************************************)
CadInit ==
    /\ AppInit /\ STLIdle /\ GenIdle
    /\ heap = <<>> /\ objects = {}
    /\ csgLoaded \in BOOLEAN
    /\ cadEngine \in CadEngines
    /\ lastOp = NoOp

\* the operation's result becomes the state
operated(op, a, b, result) ==
    /\ Len(result.heap) <= MaxMeshes
    /\ Cardinality(objects) < MaxObjects
    /\ heap' = result.heap
    /\ objects' = IF result.threw THEN objects ELSE objects \cup {result.mesh}
    /\ lastOp' = Op(op, a, b, result)
    /\ UNCHANGED <<authVars, bootVars, headerAuth, authUIVars, sidebarVars, tasks, threeVars,
                   stlVars, csgLoaded, cadEngine, genVars, svcVars>>

\* cad.cube(...), cad.cylinder(...)
Primitive ==
    \E shape \in Shapes :
        operated("primitive", 0, 0,
                 Result(Append(heap, Object3D("mesh", shape, 0, <<>>)), Len(heap) + 1, FALSE,
                        <<>>, 0))

\* a.union(b)
Union == \E a \in objects, b \in objects : operated("union", a, b, union(heap, a, b))

\* a.subtract(b)
Subtract ==
    \E a \in objects, b \in objects :
        operated("subtract", a, b, boolean(cadEngine, csgLoaded, "subtract", heap, a, b))

\* a.intersect(b)
Intersect ==
    \E a \in objects, b \in objects :
        operated("intersect", a, b, boolean(cadEngine, csgLoaded, "intersect", heap, a, b))

CadNext == Primitive \/ Union \/ Subtract \/ Intersect

SpecCad == CadInit /\ [][CadNext]_vars

(***************************************************************************)
(* The AuthService with the page around it: the session check, sign-in     *)
(* from the header button, the banner and generateFromPrompt, the usage    *)
(* refresh that ends a generation, and signOut called on the service.      *)
(***************************************************************************)
AuthNext ==
    \/ SessionCheckResponse
    \/ SessionCheckNotify
    \/ ClickGenerate
    \/ PromptEnter
    \/ HeaderSignIn
    \/ BannerClick
    \/ EmailSubmitted
    \/ SessionResponse
    \/ SignOut
    \/ SignOutResponse
    \/ GenerateResponse
    \/ StlResponse
    \/ UsageResponse

SpecAuth == Init /\ [][AuthNext]_vars

(***************************************************************************)
(* The sidebar: prompt, editor and BUILD MODEL, for a user whose session   *)
(* the page found at load.                                                 *)
(***************************************************************************)
SidebarNext ==
    \/ SessionCheckResponse
    \/ SessionCheckNotify
    \/ ClickGenerate
    \/ PromptEnter
    \/ GenerateResponse
    \/ ExecuteResponse
    \/ StlResponse
    \/ UsageResponse
    \/ EditCode
    \/ ClickBuild

SpecSidebar == Init /\ [][SidebarNext]_vars

(***************************************************************************)
(* The STL decoder on its own: one file, decoded by parseSTL and by        *)
(* parseBinarySTL.                                                         *)
(***************************************************************************)
appVars == <<authVars, bootVars, headerAuth, authUIVars, sidebarVars, tasks, threeVars,
            libVars>>

STLInit ==
    /\ AppInit /\ CadIdle /\ GenIdle
    /\ stlFile \in STLInputs
    /\ parsed = NoResult
    /\ parsedBinary = NoResult
    /\ parsedAscii = NoResult

\* geometry = this.parseSTL(stlData)
ParseSTL ==
    /\ parsed = NoResult
    /\ parsed' = parseSTL(stlFile)
    /\ UNCHANGED <<appVars, stlFile, parsedBinary, parsedAscii>>

\* this.parseBinarySTL(buffer, geometry), called on its own
ParseBinarySTL ==
    /\ parsedBinary = NoResult
    /\ parsedBinary' = parseBinarySTL(stlFile)
    /\ UNCHANGED <<appVars, stlFile, parsed, parsedAscii>>

STLNext == ParseSTL \/ ParseBinarySTL

SpecSTL == STLInit /\ [][STLNext]_vars

(***************************************************************************)
(* parseASCIISTL on its own: one text, decoded once.                       *)
(***************************************************************************)
AsciiInit ==
    /\ AppInit /\ CadIdle /\ GenIdle
    /\ stlFile \in AsciiTexts
    /\ parsed = NoResult
    /\ parsedBinary = NoResult
    /\ parsedAscii = NoResult

\* this.parseASCIISTL(stlData, geometry, vertices, normals)
ParseASCIISTL ==
    /\ parsedAscii = NoResult
    /\ parsedAscii' = parseASCIISTL(stlFile.data)
    /\ UNCHANGED <<appVars, stlFile, parsed, parsedBinary>>

AsciiNext == ParseASCIISTL

SpecAscii == AsciiInit /\ [][AsciiNext]_vars

(***************************************************************************)
(* The ThreeJSManager called directly: buildModel(code) and loadSTL(data). *)
(***************************************************************************)
\* the data handed to loadSTL: the two downloads, ASCII files, and data the
\* decoder rejects
ThreeInputs == Downloads \cup AsciiInputs \cup OtherInputs

\* the outcome of a call on the ThreeJSManager becomes the state
called(call, input, out, bindings) ==
    /\ currentModel' = out.currentModel
    /\ scene' = out.scene
    /\ windowModel' = out.windowModel
    /\ camera' = out.camera
    /\ wireframe' = (IF call = "buildModel"
                     THEN buildWireframe(out.ok, out.currentModel, wireframe, wireframeMode)
                     ELSE loadWireframe(out.ok, wireframe))
    /\ UNCHANGED <<wireframeMode, controlVars>>
    /\ lastCall' = Call(call, input, out.ok, out.error, out.returned, bindings)
    /\ UNCHANGED <<authVars, bootVars, headerAuth, authUIVars, sidebarVars, tasks, stlVars, libVars>>

\* threeManager.buildModel(code)
BuildModel ==
    \E code \in CodeSamples :
        called("buildModel", code, buildModel(code, currentModel, scene, windowModel, camera),
               IF trim(code.text) = <<>> THEN <<>> ELSE scriptBindings)

\* threeManager.loadSTL(stlData)
LoadSTL ==
    \E d \in ThreeInputs :
        called("loadSTL", d, loadSTL(d, NULL, currentModel, scene, windowModel, camera), <<>>)

\* threeManager.resetView(): only the camera moves
ResetView ==
    /\ camera' = resetView(currentModel)
    /\ lastCall' = Call("resetView", <<>>, TRUE, "", NoModel, <<>>)
    /\ UNCHANGED <<currentModel, scene, windowModel, wireframeMode, wireframe, controlVars>>
    /\ UNCHANGED <<authVars, bootVars, headerAuth, authUIVars, sidebarVars, tasks, stlVars, libVars>>

\* threeManager.toggleWireframe(), from the header's Wireframe button
ToggleWireframe ==
    /\ wireframeMode' = ~wireframeMode
    /\ wireframe' = updateWireframe(currentModel, wireframe, ~wireframeMode)
    /\ lastCall' = Call("toggleWireframe", <<>>, TRUE, "", NoModel, <<>>)
    /\ UNCHANGED <<currentModel, scene, windowModel, camera, controlVars>>
    /\ UNCHANGED <<authVars, bootVars, headerAuth, authUIVars, sidebarVars, tasks, stlVars, libVars>>

ThreeNext == BuildModel \/ LoadSTL \/ ResetView \/ ToggleWireframe

SpecThree == Init /\ [][ThreeNext]_vars

(***************************************************************************)
(* Properties of the sidebar's requests.                                   *)
(***************************************************************************)
\* a handler of this kind sends its first request in this step
started(kind) ==
    \E x \in tasks' \ tasks : x[1].kind = kind /\ x[1].pc = "fetch"


\* BUILD MODEL is clicked in this step on code that is not blank (the
\* handler's first message is then 'Code detection')
buildClicked ==
    /\ console' # <<>>
    /\ console'[1] = "Code detection"
    /\ ClickBuild

\* executeBadCADCode is called in this step
executeInvoked ==
    /\ buildClicked
    /\ ~contains(codeEditor.text, sCad)
    /\ isBadCADCode(codeEditor.text)

\* the sidebar's last received auth state is signed in, below the limit
belowLimit ==
    /\ ~authState.null
    /\ authState.isSignedIn
    /\ authState.canGenerate
    /\ authState.modelCount < maxModels

\* C1: a request to /api/generate or /api/execute is sent only when the
\* sidebar's last received auth state is signed in with canGenerate, i.e.
\* with modelCount below maxModels; in every other state generateFromPrompt
\* and executeBadCADCode send no request and log a message.
C1_RequestsGated ==
    [][ /\ (started("generate") \/ started("execute")) => belowLimit
        /\ (~belowLimit /\ (ClickGenerate \/ PromptEnter \/ executeInvoked))
              => /\ ~started("generate")
                 /\ ~started("execute")
                 /\ Len(console') > 0 ]_vars

\* the limit was reached, Generate or BUILD MODEL was refused with the
\* message, and nothing is in flight
C1_Witness ==
    /\ limitReached(authState)
    /\ authState.modelCount = maxModels
    /\ console # <<>>
    /\ console[Len(console)] = "Model generation limit reached"
    /\ tasks = {}

\* C6: when the /api/generate request fails, generating from a prompt falls
\* back to the local generator: a script is produced locally and its model
\* is displayed.
C6_FallbackOnFailure ==
    [][ (console' = <<"Generation Error", "Backend unavailable">>)
          => /\ ~currentModel'.null
             /\ currentModel'.src = "cad"
             /\ contains(codeEditor'.text, sCad) ]_vars

\* C8: on a successful /api/generate response the handler stores the model
\* id, shows the code and requests the STL, in this order; when the download
\* has been answered, loaded or not, it requests the usage refresh, and no
\* refresh is requested earlier.
C8_OrderThenRefresh ==
    [][ /\ \A x \in tasks' \ tasks :
             (x[1].kind = "generate" /\ x[1].pc = "stl")
                => /\ currentModelId' = x[1].modelId
                   /\ codeEditor' = BackendCode
                   /\ x[1].hist = SubSeq(GenerateSteps, 1, 3)
                   /\ \E y \in tasks \ tasks' : y[1].kind = "generate" /\ y[1].pc = "fetch"
        /\ \A x \in tasks \ tasks' :
             (x[1].kind = "generate" /\ x[1].pc = "stl")
                => \E y \in tasks' \ tasks :
                      /\ y[1].kind = "generate"
                      /\ y[1].pc = "usage"
                      /\ y[1].hist = GenerateSteps
        /\ \A x \in tasks' \ tasks :
             (x[1].kind = "generate" /\ x[1].pc = "usage")
                => \E y \in tasks \ tasks' : y[1].kind = "generate" /\ y[1].pc = "stl" ]_vars

\* the STL of a generated model failed to load and the usage refresh is in
\* flight all the same
C8_Witness ==
    /\ \E t \in Running : t.kind = "generate" /\ t.pc = "usage" /\ t.hist = GenerateSteps
    /\ console # <<>>
    /\ console[Len(console)] = "STL Loading Error"
    /\ currentModelId # NULL
    /\ codeEditor = BackendCode

\* C9: BUILD MODEL on code containing 'cad.' builds it locally, whatever the
\* auth state: no request is sent, and the user, the sign-in state, the
\* model count and the sidebar's auth state stay as they are.
C9_CadBuildIsLocal ==
    [][ (buildClicked /\ contains(codeEditor.text, sCad))
          => /\ tasks' = tasks
             /\ UNCHANGED <<authVars, authState>>
             /\ console'[2] = "Building CAD model..."
             /\ currentModel' =
                  buildModel(codeEditor, currentModel, scene, windowModel, camera).currentModel
             /\ currentModelId' = NULL ]_vars

\* a model was built locally while the usage limit was reached
C9_Witness ==
    /\ console = <<"Code detection", "Building CAD model...", "Model built successfully!">>
    /\ limitReached(authState)
    /\ ~currentModel.null
    /\ currentModel.src = "cad"
    /\ tasks = {}

(***************************************************************************)
(* Properties of the AuthService.                                          *)
(***************************************************************************)
\* C2: the generation counter stays within 0 .. maxModels, so the remaining
\* count is never negative and the usage percentage never exceeds 100.
C2_CounterBounded ==
    /\ 0 <= modelCount
    /\ modelCount <= maxModels
    /\ getRemainingModels(modelCount) >= 0
    /\ getUsagePercentage(modelCount) <= 100

\* C7: once the session check has notified, the header and the sidebar hold
\* the same auth state: every change is delivered to both.
C7_DeliveredToBoth ==
    sessionCheck = "done" =>
        /\ ~headerAuth.null
        /\ headerAuth = authState

(***************************************************************************)
(* Properties of the STL decoder.                                          *)
(***************************************************************************)
bytesOf(d) == IF d.type = "string" THEN TextEncode(d.data) ELSE d.data

\* C5: for every buffer parseBinarySTL accepts, the count is the little-endian
\* uint32 at offset 80, triangle i is read at 84 + 50 i (normal at +0, vertices
\* at +12, +24, +36), and position and normal both hold 9 * triangleCount
\* numbers, vertex by vertex in file order, each with its triangle's normal.
C5_BinaryLayout ==
    parsedBinary.ok =>
        LET bytes == bytesOf(stlFile)
            n == bytes[81] + 256 * bytes[82] + 65536 * bytes[83] + 16777216 * bytes[84]
        IN  /\ Len(parsedBinary.position) = 9 * n
            /\ Len(parsedBinary.normal) = 9 * n
            /\ \A i \in 0..(n - 1) : \A j \in 0..2 : \A k \in 0..2 :
                 /\ parsedBinary.position[9 * i + 3 * j + k + 1]
                       = getFloat32(bytes, 84 + 50 * i + 12 + 12 * j + 4 * k)
                 /\ parsedBinary.normal[9 * i + 3 * j + k + 1]
                       = getFloat32(bytes, 84 + 50 * i + 4 * k)

\* a buffer with the largest number of triangles, followed by further bytes,
\* was accepted
C5_Witness ==
    /\ parsedBinary.ok
    /\ Len(parsedBinary.position) = 9 * MaxTriangles
    /\ Len(stlFile.data) > 84 + 50 * MaxTriangles

\* C3: a truncated binary STL (declared count needs more bytes than the
\* buffer holds) yields the geometry of the triangles completely present.
C3_TruncationRecovered ==
    LET bytes == bytesOf(stlFile)
        complete == (Len(bytes) - 84) \div 50
    IN  (/\ parsedBinary # NoResult
         /\ stlFile.type = "ArrayBuffer"
         /\ Len(bytes) >= 84
         /\ Len(bytes) < expectedSizeFor(getUint32(bytes, 80))
         /\ complete >= 1)
        => /\ parsedBinary.ok
           /\ Len(parsedBinary.position) = 9 * complete

\* C4: parseSTL decodes every well-formed binary STL as binary and every
\* well-formed ASCII STL as ASCII, and the result holds 3 * n vertices.
C4_DetectionCorrect ==
    (parsed # NoResult /\ stlFile.wellFormed)
        => /\ parsed.format = stlFile.enc
           /\ parsed.ok
           /\ Len(parsed.position) = 9 * stlFile.tris

(***************************************************************************)
(* Properties of the script runner.                                        *)
(***************************************************************************)
\* C10: build runs the script with exactly the bindings cad, THREE and Math
\* and requires it to define `model`: blank code throws 'No code to build',
\* a script that defines no model throws 'No model variable found', a
\* script error is rethrown, and only a script whose model.build() yields an
\* object returns the model.
C10_BuildContract ==
    lastCall.call = "buildModel" =>
        LET code == lastCall.input
            blank == trim(code.text) = <<>>
        IN  /\ ~blank => lastCall.bindings = <<"cad", "THREE", "Math">>
            /\ blank => ~lastCall.ok /\ lastCall.error = "No code to build"
            /\ (~blank /\ code.run = "noModel")
                  => ~lastCall.ok /\ lastCall.error = "No model variable found"
            /\ (~blank /\ code.run = "throws")
                  => ~lastCall.ok /\ lastCall.error = "script error"
            /\ lastCall.ok <=> (~blank /\ code.run \in {"object", "objectGlobal"})
            /\ lastCall.ok => ~lastCall.returned.null /\ currentModel = lastCall.returned


(***************************************************************************)
(* The AICADGenerator called directly.                                     *)
(***************************************************************************)
GenInit ==
    /\ AppInit /\ STLIdle /\ CadIdle
    /\ generation = NoGeneration

\* aiGenerator.generate(prompt), up to its await of the timer
Generate ==
    /\ generation.pc # "timer"
    /\ \E prompt \in GenPrompts : generation' = Analyzing(prompt)
    /\ UNCHANGED <<authVars, bootVars, headerAuth, authUIVars, sidebarVars, tasks, threeVars,
                   stlVars, cadVars, svcVars>>

\* the timer fires: generate runs to its return or its throw
GenerateResumes ==
    /\ generation.pc = "timer"
    /\ generation' = generate(generation.prompt)
    /\ UNCHANGED <<authVars, bootVars, headerAuth, authUIVars, sidebarVars, tasks, threeVars,
                   stlVars, cadVars, svcVars>>

GenNext == Generate \/ GenerateResumes

SpecGen == GenInit /\ [][GenNext]_vars
(***************************************************************************)
(* The canvas and document listeners of setupControls.                     *)
(***************************************************************************)
\* event.clientX, event.clientY
ClientX == {0, 100}
ClientY == {0, 100, 500}

\* event.deltaY of a wheel event
WheelDeltas == {-125000, 125000}

\* event.code
KeyCodes == {"Numpad7", "Numpad1", "Numpad3", "KeyA"}

\* the farthest a pan is followed, in units
MaxPan == 10

\* the widest turn an orbit is followed to, in 1e-5 rad
MaxTurn == 200000

\* the coordinates of a panned camera stay within `reach`
within(cam, reach) == \A k \in 1..3 : abs(cam.position[k]) <= reach

turned(cam) == IF isCartesian(cam) THEN TRUE ELSE abs(cam.spherical.theta) <= MaxTurn

ControlInit == AppInit /\ STLIdle /\ CadIdle /\ GenIdle

handled(call, input, cam) ==
    /\ camera' = cam
    /\ lastCall' = Call(call, input, TRUE, "", NoModel, <<>>)
    /\ UNCHANGED <<currentModel, scene, windowModel, wireframeMode, wireframe>>
    /\ UNCHANGED <<authVars, bootVars, headerAuth, authUIVars, sidebarVars, tasks, stlVars, libVars>>

\* canvas mousedown
MouseDown ==
    \E button \in 0..2, x \in ClientX, y \in ClientY :
        /\ mouseDown' = (IF button = 0 THEN TRUE ELSE mouseDown)
        /\ rightMouseDown' = (IF button = 2 THEN TRUE ELSE rightMouseDown)
        /\ mouseX' = x /\ mouseY' = y
        /\ handled("mousedown", <<>>, camera)

\* canvas mouseup
MouseUp ==
    /\ mouseDown' = FALSE /\ rightMouseDown' = FALSE
    /\ UNCHANGED <<mouseX, mouseY>>
    /\ handled("mouseup", <<>>, camera)

\* canvas mousemove
MouseMove ==
    \E x \in ClientX, y \in ClientY :
        IF mouseDown
        THEN /\ exact(camera)
             /\ turned(orbit(camera, x - mouseX, y - mouseY))
             /\ mouseX' = x /\ mouseY' = y
             /\ UNCHANGED <<mouseDown, rightMouseDown>>
             /\ handled("orbit", <<>>,
                        orbit(camera, x - mouseX, y - mouseY))
        ELSE IF rightMouseDown
        THEN /\ topView(camera)
             /\ panExact(length(camera))
             /\ within(pan(camera, x - mouseX, y - mouseY), 100 * MaxPan)
             /\ mouseX' = x /\ mouseY' = y
             /\ UNCHANGED <<mouseDown, rightMouseDown>>
             /\ handled("pan", <<>>,
                        pan(camera, x - mouseX, y - mouseY))
        ELSE /\ UNCHANGED controlVars
             /\ handled("mousemove", <<>>, camera)

\* canvas wheel
Wheel ==
    \E deltaY \in WheelDeltas :
        /\ exact(camera)
        /\ UNCHANGED controlVars
        /\ handled("wheel", deltaY, zoom(camera, deltaY))

\* document keydown
KeyDown ==
    \E code \in KeyCodes :
        /\ UNCHANGED controlVars
        /\ handled("keydown", code,
                   IF code = "Numpad7" THEN Camera(<<0, 1000, 0>>, <<0, 0, 0>>)
                   ELSE IF code = "Numpad1" THEN Camera(<<0, 0, 1000>>, <<0, 0, 0>>)
                   ELSE IF code = "Numpad3" THEN Camera(<<1000, 0, 0>>, <<0, 0, 0>>)
                   ELSE camera)

ControlNext == MouseDown \/ MouseUp \/ MouseMove \/ Wheel \/ KeyDown

SpecControls == ControlInit /\ [][ControlNext]_vars

(***************************************************************************)
(* Properties of the CAD engine.                                           *)
(***************************************************************************)
\* C11: a.union(b) returns a new CADObject whose mesh is a group holding
\* exactly one copy of a's mesh and one copy of b's mesh, in this order; no
\* object that existed before is modified or re-parented, so the group of a
\* chained union holds all primitives of its operands.
C11_UnionGroupsClones ==
    [][ (lastOp'.op = "union" /\ Len(heap') > Len(heap))
          => LET g == lastOp'.mesh
                 kids == heap'[g].children
             IN  /\ ~lastOp'.threw
                 /\ g > Len(heap) /\ g \in objects'
                 /\ heap'[g].kind = "group" /\ heap'[g].parent = 0
                 /\ Len(kids) = 2 /\ kids[1] # kids[2]
                 /\ \A k \in 1..2 : kids[k] > Len(heap) /\ heap'[kids[k]].parent = g
                 /\ structure(heap', kids[1]) = structure(heap, lastOp'.a)
                 /\ structure(heap', kids[2]) = structure(heap, lastOp'.b)
                 /\ \A i \in 1..Len(heap) : heap'[i] = heap[i]
                 /\ primitives(heap', g)
                      = primitives(heap, lastOp'.a) + primitives(heap, lastOp'.b) ]_vars

\* a union one of whose operands is itself a union, with three primitives
C11_Witness ==
    /\ lastOp.op = "union"
    /\ heap[lastOp.a].kind = "group"
    /\ primitives(heap, lastOp.mesh) = 3

\* C12: with the CSG library present, subtract and intersect hand copies of
\* both operands' meshes to the library, and the CADObject they return wraps
\* the library's result.
C12_ForwardedToCSG ==
    (lastOp.op \in {"subtract", "intersect"} /\ csgLoaded)
        => /\ ~lastOp.threw
           /\ Len(lastOp.csgArgs) = 2
           /\ lastOp.csgArgs[1] \notin {lastOp.a, lastOp.b}
           /\ lastOp.csgArgs[2] \notin {lastOp.a, lastOp.b}
           /\ structure(heap, lastOp.csgArgs[1]) = structure(heap, lastOp.a)
           /\ structure(heap, lastOp.csgArgs[2]) = structure(heap, lastOp.b)
           /\ lastOp.csgResult # 0
           /\ lastOp.mesh = lastOp.csgResult


\* the framing of the claim: for the largest extent of the box of the
\* object, d = 1.5 * maxSize + 2 (in tenths), the camera at (0.7d, 0.5d,
\* 0.7d) (in hundredths), looking at the centre of the box
framing(object) ==
    LET box == Box3(object)
        d == 15 * maxOf(getSize(box)) + 20
    IN  Camera(<<7 * d, 5 * d, 7 * d>>, getCenter(box))

\* C13: buildModel, loadSTL and resetView place the camera by the same
\* function of the model's bounding box: with maxSize the largest extent and
\* d = 1.5 * maxSize + 2 the camera is at (0.7d, 0.5d, 0.7d) looking at the
\* centre of the box; hence resetView right after a successful buildModel or
\* loadSTL leaves the camera where it is.
C13_SameFraming ==
    [][ /\ (lastCall'.call \in {"buildModel", "loadSTL"} /\ lastCall'.ok)
            => camera' = framing(lastCall'.returned)
        /\ (lastCall'.call = "resetView" /\ ~currentModel.null)
            => camera' = framing(currentModel)
        /\ (lastCall'.call = "resetView" /\ lastCall.call \in {"buildModel", "loadSTL"}
              /\ lastCall.ok)
            => camera'.position = camera.position ]_vars

\* resetView was called right after an STL mesh of non-zero extent was loaded
C13_Witness ==
    /\ lastCall.call = "resetView"
    /\ ~currentModel.null /\ currentModel.src = "stl"
    /\ camera.position # <<140, 100, 140>>
    /\ camera = framing(currentModel)

\* C14: generate returns a script for every prompt: that of the first
\* matching object pattern in table order, the box script when no pattern
\* matches; it never throws 'No generator found' for an entry of the object
\* pattern table.
C14_AlwaysAScript ==
    generation.pc = "done" =>
        /\ ~generation.threw
        /\ generation.object =
              (IF firstMatch(objectPatterns, generation.prompt) = NULL THEN "box"
               ELSE firstMatch(objectPatterns, generation.prompt))
        /\ <<generation.object, generation.code>> \in templates

\* the /api/generate and /api/execute requests of the sidebar awaiting
\* their response
requestsInFlight == {x \in tasks : x[1].kind \in {"generate", "execute"} /\ x[1].pc = "fetch"}

\* C15: at most one backend generation or execution request of the sidebar is
\* in flight at any time: while a generateFromPrompt request is pending, no
\* Generate click, Enter in the prompt box or Build of BadCAD code starts a
\* second /api/generate or /api/execute request.
C15_OneRequestInFlight ==
    [][ (\E x \in tasks : x[1].kind = "generate" /\ x[1].pc = "fetch")
           => Cardinality(requestsInFlight') <= 1 ]_vars

\* C16: currentModelId, the code in the editor and the model shown come from
\* the same backend response: once the flows have ended, a non-null
\* currentModelId is the id of the STL mesh that is displayed, under any
\* interleaving of generate, execute, local build, out-of-order responses and
\* failed STL loads.
C16_IdMatchesDisplayed ==
    (tasks = {} /\ currentModelId # NULL)
        => /\ ~currentModel.null
           /\ currentModel.src = "stl"
           /\ currentModel.of = currentModelId

\* C17: after any sequence of build and loadSTL calls the scene holds at most
\* one user model, and it is modelBuilder.currentModel; a build that fails
\* leaves the scene without a user model and currentModel null: the model
\* displayed before is removed.
C17_SingleModel ==
    [][ /\ Len(scene') <= 1
        /\ scene' = (IF currentModel'.null THEN <<>> ELSE <<currentModel'>>)
        /\ (lastCall'.call = "buildModel" /\ ~lastCall'.ok)
              => (currentModel'.null /\ scene' = <<>>) ]_vars

\* a build failed after a model had been framed: nothing is displayed
C17_Witness ==
    /\ lastCall.call = "buildModel" /\ ~lastCall.ok
    /\ camera # DefaultCamera
    /\ currentModel.null /\ scene = <<>>

\* C18: loadSTL parses before it touches the scene: when parsing throws, the
\* model displayed before stays in the scene, currentModel and the camera
\* position are unchanged and the error is rethrown; on success the previous
\* model is removed and the new mesh is the single current model.
C18_ParseFirst ==
    [][ lastCall'.call = "loadSTL" =>
          IF lastCall'.ok
          THEN /\ ~lastCall'.returned.null /\ lastCall'.returned.src = "stl"
               /\ currentModel' = lastCall'.returned
               /\ scene' = <<lastCall'.returned>>
          ELSE /\ lastCall'.error # ""
               /\ UNCHANGED <<currentModel, scene>>
               /\ camera'.position = camera.position ]_vars

\* loadSTL threw while a model was displayed: the model is still there
C18_Witness ==
    /\ lastCall.call = "loadSTL" /\ ~lastCall.ok
    /\ ~currentModel.null /\ scene = <<currentModel>>
    /\ camera # DefaultCamera

\* a signIn call returns in this step: its create-session request is answered
signInReturned == \E t \in TasksAt("signIn", "session") : tasks' = finish(t)

\* a signOut call returns in this step: its destroy-session request is answered
signOutReturned == \E t \in TasksAt("signOut", "fetch") : tasks' = finish(t)

\* C19: when the create-session request throws or answers with a non-OK
\* status, signIn returns false, leaves user, isSignedIn, modelCount and
\* csrfToken unchanged and notifies nobody; only an OK response makes it set
\* isSignedIn with the identity and model_count of the response, store the
\* CSRF token, notify the listener exactly once and return true.
C19_SignIn ==
    [][ signInReturned =>
          /\ authCall'.call = "signIn"
          /\ authCall'.returned <=> authCall'.response.ok
          /\ IF authCall'.response.ok
             THEN /\ isSignedIn'
                  /\ user' = authCall'.response.user
                  /\ modelCount' = authCall'.response.model_count
                  /\ csrfToken' = authCall'.response.csrf_token
                  /\ authCall'.notified = 1
                  /\ onAuthStateChanged = "sidebar"
                        => authState' = getAuthState(TRUE, user', modelCount')
             ELSE /\ UNCHANGED <<user, isSignedIn, modelCount, csrfToken>>
                  /\ authCall'.notified = 0
                  /\ UNCHANGED <<authState, headerAuth>> ]_vars

\* signIn failed on a thrown request while a user was signed in: the user
\* and the token are still there
C19_Witness ==
    /\ authCall.call = "signIn"
    /\ ~authCall.returned /\ authCall.response.thrown
    /\ isSignedIn /\ csrfToken = "token"

\* C20: once the destroy-session request completes, whatever its status,
\* signOut ends with user = null, isSignedIn = false, modelCount = 0,
\* csrfToken = null, the stored user data removed and the listener notified
\* once, and returns true; when the request throws it returns false and
\* leaves user, isSignedIn and modelCount unchanged, notifying nobody.
C20_SignOut ==
    [][ signOutReturned =>
          /\ authCall'.call = "signOut"
          /\ authCall'.returned <=> ~authCall'.response.thrown
          /\ IF ~authCall'.response.thrown
             THEN /\ user' = NULL /\ ~isSignedIn' /\ modelCount' = 0 /\ csrfToken' = NULL
                  /\ tempUserData' = NoUserData
                  /\ authCall'.notified = 1
                  /\ onAuthStateChanged = "sidebar"
                        => authState' = getAuthState(FALSE, NULL, 0)
             ELSE /\ UNCHANGED <<user, isSignedIn, modelCount>>
                  /\ authCall'.notified = 0
                  /\ UNCHANGED <<authState, headerAuth>> ]_vars

\* signOut returned true on a non-OK response and the service is cleared
C20_Witness ==
    /\ authCall.call = "signOut"
    /\ authCall.returned /\ ~authCall.response.ok
    /\ user = NULL /\ ~isSignedIn /\ tempUserData = NoUserData
    /\ ~authState.null /\ ~authState.isSignedIn

\* C21: whenever the auth state the sidebar last received is signed in with
\* canGenerate false, the Generate button is disabled, also after the
\* generation that used the last allowed model has ended and its loading
\* state was reset.
C21_LimitDisablesButton ==
    (~authState.null /\ limitReached(authState)) => generateBtnDisabled

\* generateFromPrompt runs with this prompt, from the button or from Enter
invokedWith(prompt) == CanClick /\ generateFromPrompt(prompt)

\* the sidebar holds no auth state, or one that is not signed in
notSignedIn == authState.null \/ ~authState.isSignedIn

\* C22: generateFromPrompt invoked while the sidebar's auth state is missing
\* or not signed in starts the sign-in flow and sends no /api/generate
\* request in that invocation, whether the sign-in then succeeds or fails; an
\* empty or whitespace-only prompt starts no sign-in and sends no request.
C22_SignInInsteadOfRequest ==
    [][ /\ \A prompt \in Prompts :
             invokedWith(prompt) =>
                IF \A i \in 1..Len(prompt) : isWhitespace(prompt[i])
                THEN tasks' = tasks
                ELSE notSignedIn =>
                        /\ tasks' = start(Task("signIn", "email", "generate", NULL, <<>>))
                        /\ requestsInFlight' = requestsInFlight
        /\ \A t \in TasksAt("signIn", "session") :
             (t.caller = "generate" /\ tasks' = finish(t))
                => requestsInFlight' = requestsInFlight ]_vars

\* generateFromPrompt has started a sign-in, whose create-session request
\* is pending, and no generation request was sent
C22_Witness ==
    /\ \E t \in TasksAt("signIn", "session") : t.caller = "generate"
    /\ notSignedIn
    /\ requestsInFlight = {}

\* BUILD MODEL builds nothing and sends nothing
nothingBuilt == UNCHANGED <<tasks, threeVars, currentModelId>>

\* BUILD MODEL builds the editor's code locally
builtLocally ==
    /\ console'[2] = "Building CAD model..."
    /\ currentModel' = buildModel(codeEditor, currentModel, scene, windowModel, camera).currentModel
    /\ tasks' = tasks

\* the editor's code goes to executeBadCADCode
handedToBackend ==
    /\ console'[2] = "Executing BadCAD code..."
    /\ UNCHANGED <<threeVars, currentModelId>>

\* an /api/execute request is sent
requestSent == tasks' = start(Task("execute", "fetch", "sidebar", NULL, <<>>))

\* C23 as stated: buildModel sends the editor code down exactly one route, in
\* this order: blank code is rejected with a message; code containing 'cad.'
\* is built locally; code matching a BadCAD pattern is sent to the backend;
\* anything else is reported as not recognized, with no build and no request.
C23_OneRoute ==
    [][ ClickBuild =>
          IF trim(codeEditor.text) = <<>>
          THEN console' = <<"No code to build">> /\ nothingBuilt
          ELSE IF contains(codeEditor.text, sCad) THEN builtLocally
          ELSE IF isBadCADCode(codeEditor.text) THEN handedToBackend /\ requestSent
          ELSE console' = <<"Code detection", "Code not recognized">> /\ nothingBuilt ]_vars

\* C23, amended: as above, but code matching a BadCAD pattern is handed to
\* executeBadCADCode, which sends the /api/execute request only when the
\* sidebar's auth state is signed in below the limit and otherwise logs a
\* message and sends nothing.  Code matching both 'cad.' and a BadCAD pattern
\* is built locally.
C23_OneRouteGated ==
    [][ ClickBuild =>
          IF trim(codeEditor.text) = <<>>
          THEN console' = <<"No code to build">> /\ nothingBuilt
          ELSE IF contains(codeEditor.text, sCad) THEN builtLocally
          ELSE IF isBadCADCode(codeEditor.text)
          THEN /\ handedToBackend
               /\ IF ~notSignedIn /\ authState.canGenerate
                  THEN requestSent
                  ELSE tasks' = tasks /\ Len(console') = 3
          ELSE console' = <<"Code detection", "Code not recognized">> /\ nothingBuilt ]_vars

\* code matching both 'cad.' and a BadCAD pattern was built locally
C23_Witness ==
    /\ codeEditor.text = tBoth /\ isBadCADCode(tBoth)
    /\ Len(console) = 3 /\ console[2] = "Building CAD model..."
    /\ tasks = {}

\* what the file format asks of a text written from these lines: an error
\* at the first line that breaks a rule, or the number of facets completed
expected(lines) ==
    LET RECURSIVE scan(_, _, _, _)
        scan(k, open, collected, facets) ==
            IF k > Len(lines)
            THEN IF facets = 0 THEN [ok |-> FALSE, error |-> "No valid triangles", facets |-> 0]
                 ELSE [ok |-> TRUE, error |-> "", facets |-> facets]
            ELSE IF lines[k] = "facet" THEN scan(k + 1, TRUE, 0, facets)
            ELSE IF lines[k] = "shortFacet"
            THEN [ok |-> FALSE, error |-> "Invalid facet normal line", facets |-> facets]
            ELSE IF lines[k] \in {"vertex", "shortVertex"} /\ ~open
            THEN [ok |-> FALSE, error |-> "Vertex found outside of facet", facets |-> facets]
            ELSE IF lines[k] = "shortVertex"
            THEN [ok |-> FALSE, error |-> "Invalid vertex line", facets |-> facets]
            ELSE IF lines[k] = "vertex" THEN scan(k + 1, open, collected + 1, facets)
            ELSE IF lines[k] = "endfacet"
            THEN IF ~open \/ collected # 3
                 THEN [ok |-> FALSE, error |-> "Invalid facet: expected 3 vertices",
                       facets |-> facets]
                 ELSE scan(k + 1, FALSE, 0, facets + 1)
            ELSE scan(k + 1, open, collected, facets)
    IN  scan(1, FALSE, 0, 0)

\* the 'facet normal' lines of a text
facetLines(lines) == Cardinality({k \in 1..Len(lines) : lines[k] = "facet"})

\* C24: parseASCIISTL accepts a facet only at 'endfacet' with exactly 3
\* vertices collected since the last 'facet normal': a 'vertex' line with no
\* open facet throws, an 'endfacet' with no open facet or another vertex
\* count throws, and text with no completed facet throws 'No valid triangles
\* found'; each accepted facet appends 3 vertices and 3 copies of its normal,
\* so positions and normals both have length 9 * facets.
C24_FacetAcceptance ==
    parsedAscii # NoResult =>
        LET want == expected(stlFile.lines)
        IN  /\ parsedAscii.ok <=> want.ok
            /\ ~want.ok =>
                  /\ parsedAscii.position = <<>>
                  /\ want.error = "No valid triangles"
                        => parsedAscii.error = "No valid triangles found in ASCII STL data"
                  /\ want.error # "No valid triangles"
                        => parsedAscii.error = want.error
            /\ want.ok =>
                  /\ Len(parsedAscii.position) = 9 * want.facets
                  /\ Len(parsedAscii.normal) = 9 * want.facets
                  /\ \A f \in 0..(want.facets - 1) : \A c \in 1..3 :
                        /\ parsedAscii.normal[9 * f + c] = parsedAscii.normal[9 * f + 3 + c]
                        /\ parsedAscii.normal[9 * f + c] = parsedAscii.normal[9 * f + 6 + c]

\* two facets with different normals were accepted, one of them written
\* with its loop lines
C24_Witness ==
    /\ parsedAscii.ok
    /\ Len(parsedAscii.position) = 18
    /\ parsedAscii.normal[1] # parsedAscii.normal[10] \/ parsedAscii.normal[2] # parsedAscii.normal[11]
       \/ parsedAscii.normal[3] # parsedAscii.normal[12]
    /\ Len(stlFile.lines) = 12

\* C25: parseASCIISTL never loses a facet silently: every 'facet normal' line
\* of the input either contributes one triangle to the output or causes an
\* error, also a facet that is never closed and a facet followed by another
\* 'facet normal' before its 'endfacet'.
C25_NoFacetLost ==
    parsedAscii.ok => Len(parsedAscii.position) = 9 * facetLines(stlFile.lines)

\* the triangle count a buffer of at least 84 bytes declares
declared(d) == getUint32(bytesOf(d), HEADER_BYTES)

\* C26: parseBinarySTL fails with an error and returns no geometry when the
\* input is neither a string nor an ArrayBuffer, when the buffer is shorter
\* than 84 bytes, when the declared triangle count exceeds 10,000,000, or
\* when no triangle was read (declared count 0); whenever it accepts its
\* input it returns a geometry with at least one triangle.
C26_BinaryFailures ==
    parsedBinary # NoResult =>
        /\ ( \/ stlFile.type \notin {"string", "ArrayBuffer"}
             \/ Len(bytesOf(stlFile)) < 84
             \/ declared(stlFile) > 10000000
             \/ declared(stlFile) = 0 )
              => (~parsedBinary.ok /\ parsedBinary.error # "" /\ parsedBinary.position = <<>>)
        /\ parsedBinary.ok =>
              /\ Len(parsedBinary.position) >= 9
              /\ Len(parsedBinary.position) % 9 = 0
              /\ Len(parsedBinary.normal) = Len(parsedBinary.position)

\* a buffer declaring no triangle was refused
C26_Witness ==
    /\ parsedBinary # NoResult
    /\ stlFile.type = "ArrayBuffer" /\ Len(stlFile.data) = 84
    /\ declared(stlFile) = 0
    /\ parsedBinary.error = "No valid triangles found in binary STL data"

\* C27: whenever a current model exists, the wireframe flag of every mesh
\* material in it equals ThreeJSManager.wireframeMode: after toggleWireframe,
\* and after the model is replaced by buildModel or loadSTL while wireframe
\* mode is on.
C27_WireframeFollowsMode ==
    ~currentModel.null => wireframe = wireframeMode

\* C28: after every mouse-wheel event the camera's distance from the origin
\* lies within [0.1, 10000] and is the old distance + deltaY * 0.04, clamped
\* to that range; after every orbit drag the polar angle lies within
\* [0.1, pi - 0.1] and the distance from the origin is unchanged.
C28_ZoomAndOrbit ==
    [][ /\ lastCall'.call = "wheel" =>
              /\ length(camera') >= 10 /\ length(camera') <= 1000000
              /\ length(camera') =
                    (IF length(camera) + 4 * lastCall'.input < 10 THEN 10
                     ELSE IF length(camera) + 4 * lastCall'.input > 1000000 THEN 1000000
                     ELSE length(camera) + 4 * lastCall'.input)
        /\ lastCall'.call = "orbit" =>
              /\ length(camera') = length(camera)
              /\ ~isCartesian(camera') =>
                    /\ camera'.spherical.phi >= 10000
                    /\ camera'.spherical.phi <= PI - 10000 ]_vars
====
